---- MODULE Spec2Model ----
(***************************************************************************)
(* Model of cogitator/database.py: the catalog builder (read_table and the *)
(* Record.parse methods) and the resolution methods of Database.           *)
(*                                                                         *)
(* Text is modelled as a sequence of tokens.  A token is either one of the *)
(* characters the code treats specially (" ", "|", "-", "[", "]", "(",     *)
(* ")", "W"), a maximal run of digits ("5", "10"), or a run of other       *)
(* characters ("Gun", "Missile Launcher").  The empty string is <<>>.      *)
(* Cells that the code passes to int() are kept as TLA+ strings.           *)
(***************************************************************************)
EXTENDS Integers, Sequences, FiniteSets, TLC

VARIABLES game, csv, army, pc, weapons, wargear, models, formations,
          abilities, psykers, demeanours, quirks, backgrounds, costs,
          op, arg, ret, budget

vars == <<game, csv, army, pc, weapons, wargear, models, formations,
          abilities, psykers, demeanours, quirks, backgrounds, costs,
          op, arg, ret, budget>>

tables == <<weapons, wargear, models, formations, abilities, psykers,
            demeanours, quirks, backgrounds, costs>>

-----------------------------------------------------------------------------
(* Bounds of the model.                                                    *)

MaxRows == 3
MaxItems == 2
MaxQty == 2
MaxDetachments == 2
MaxUnits == 2
MaxCalls == 2

-----------------------------------------------------------------------------
(* Python values: a call either returns a value or raises.                 *)

Return(v) == [exc |-> "", val |-> v]
Raise(e) == [exc |-> e, val |-> {}]
Ok(r) == r.exc = ""
None == [none |-> TRUE]
NotCalled == [exc |-> "not called", val |-> {}]

Elems(s) == {s[i] : i \in 1..Len(s)}

(* int(s) for the decimal strings of the model; anything else is a        *)
(* ValueError.                                                             *)
MaxInt == 20
IsInt(s) == \E n \in 0..MaxInt : ToString(n) = s
int(s) == CHOOSE n \in 0..MaxInt : ToString(n) = s

(* str.strip(): drop leading and trailing whitespace.                     *)
RECURSIVE lstrip(_)
lstrip(s) == IF s # <<>> /\ Head(s) = " " THEN lstrip(Tail(s)) ELSE s

RECURSIVE rstrip(_)
rstrip(s) ==
    IF s # <<>> /\ s[Len(s)] = " " THEN rstrip(SubSeq(s, 1, Len(s) - 1))
    ELSE s

strip(s) == rstrip(lstrip(s))

(* The first position of x in the sequence l.                             *)
First(l, x) == CHOOSE k \in 1..Len(l) : l[k] = x /\ \A j \in 1..(k - 1) : l[j] # x

(* str.split(sep): the segments between occurrences of sep; always at     *)
(* least one segment.                                                      *)
RECURSIVE split(_, _)
split_at(s, sep, i) ==
    <<SubSeq(s, 1, i - 1)>> \o split(SubSeq(s, i + 1, Len(s)), sep)

split(s, sep) ==
    IF \A i \in 1..Len(s) : s[i] # sep THEN <<s>>
    ELSE split_at(s, sep, First(s, sep))

(* list.remove(x): removes the first occurrence of x.                     *)
remove_at(l, i) == SubSeq(l, 1, i - 1) \o SubSeq(l, i + 1, Len(l))

remove(l, x) == remove_at(l, First(l, x))

(* ", ".join(l)                                                            *)
RECURSIVE join(_, _)
join(sep, l) ==
    IF l = <<>> THEN <<>>
    ELSE IF Len(l) = 1 THEN l[1]
    ELSE l[1] \o sep \o join(sep, Tail(l))

-----------------------------------------------------------------------------
(* Tables: an OrderedDict is a sequence of records with distinct names,   *)
(* in insertion order.  Assigning to an existing key replaces the value   *)
(* and keeps the key's position.                                          *)

Has(table, name) == \E i \in 1..Len(table) : table[i].name = name
IndexOf(table, name) == CHOOSE i \in 1..Len(table) : table[i].name = name
Get(table, name) == table[IndexOf(table, name)]
Put(table, rec) ==
    IF Has(table, rec.name)
    THEN [table EXCEPT ![IndexOf(table, rec.name)] = rec]
    ELSE Append(table, rec)
Keys(table) == {table[i].name : i \in 1..Len(table)}

RECURSIVE update(_, _)
update(table, other) ==
    IF other = <<>> THEN table
    ELSE update(Put(table, Head(other)), Tail(other))

-----------------------------------------------------------------------------
(* Records.  The field row identifies the object: it is the index of the  *)
(* csv row the record was parsed from, 0 for a record that was            *)
(* constructed without parsing (the dummy base weapon).                   *)

(* The abilities column: split on "|" and strip each segment.             *)
strip_each(segs) == [k \in 1..Len(segs) |-> strip(segs[k])]

split_abilities(cell) == strip_each(split(cell, "|"))

(* Weapon.__init__(name, cost)                                             *)
Weapon(name, cost) ==
    [name |-> name, cost |-> cost,
     stats |-> [Name |-> name, Cost |-> ToString(cost)],
     modes |-> <<>>, abilities |-> <<>>, row |-> 0]

(* re.match of the mode pattern on the name: the positions of an          *)
(* opening bracket that has a closing bracket somewhere after it (the     *)
(* match is anchored at the start only); the greedy group takes the last  *)
(* of them.                                                               *)
weapon_pattern(name) ==
    {i \in 1..Len(name) :
        name[i] = "[" /\ \E j \in (i + 1)..Len(name) : name[j] = "]"}

Last(S) == CHOOSE k \in S : \A j \in S : j <= k

weapon_base_name(name) ==
    strip(SubSeq(name, 1, Last(weapon_pattern(name)) - 1))

(* Weapon.parse, the abilities: if "" in abilities: abilities.remove("")  *)
remove_empty(abil) == IF <<>> \in Elems(abil) THEN remove(abil, <<>>) ELSE abil

(* Weapon.parse, the abilities string of the stats map.                   *)
abilities_str(joined) == IF Len(joined) = 0 THEN <<"-">> ELSE joined

(* Weapon.parse, the fields read from the i-th row of the file.           *)
Weapon_read(row, i, abil) ==
    [name |-> row.Name, cost |-> int(row.Cost),
     stats |-> [Name |-> row.Name, Cost |-> row.Cost,
                Range |-> row.Range, Type |-> row.Type,
                S |-> row.S, AP |-> row.AP, D |-> row.D,
                Abilities |-> abilities_str(join(<<", ">>, abil))],
     modes |-> <<>>, abilities |-> abil, row |-> i]

(* Weapon.parse, table[base_name].modes.append(self)                      *)
Weapon_append_mode(self, base_name, table) ==
    Return([table EXCEPT ![IndexOf(table, base_name)].modes = Append(@, self)])

(* Weapon.parse, the grouping of the modes under a dummy base weapon.     *)
Weapon_link_base(self, base_name, table) ==
    Weapon_append_mode(self, base_name,
        IF ~Has(table, base_name)
        THEN Put(table, Weapon(base_name, self.cost))
        ELSE table)

Weapon_link(self, table) ==
    IF weapon_pattern(self.name) # {}
    THEN Weapon_link_base(self, weapon_base_name(self.name), table)
    ELSE Return(Put(table, self))

(* Weapon.parse(row, table) for the i-th row of the file.                 *)
Weapon_parse(row, table, i) ==
    IF ~IsInt(row.Cost) THEN Raise("ValueError")
    ELSE Weapon_link(
             Weapon_read(row, i, remove_empty(split_abilities(row.Abilities))),
             table)

(* Weapon.get_modes()                                                      *)
get_modes(self) == IF Len(self.modes) > 0 THEN self.modes ELSE <<self>>

(* re.match of the damage-variant pattern on the name: the positions     *)
(* of an opening parenthesis followed by digits, W and a closing          *)
(* parenthesis (anchored at the start only); the greedy group takes the   *)
(* last of them.                                                          *)
model_pattern(name) ==
    {i \in 1..(Len(name) - 3) :
        /\ name[i] = "("
        /\ IsInt(name[i + 1])
        /\ name[i + 2] = "W"
        /\ name[i + 3] = ")"}

(* Model.parse, the fields read from the i-th row of the file.            *)
Model_read(row, i) ==
    [name |-> row.Name, cost |-> int(row.Cost),
     stats |-> [Name |-> row.Name, Cost |-> row.Cost,
                M |-> row.M, WS |-> row.WS, BS |-> row.BS,
                S |-> row.S, T |-> row.T, W |-> row.W,
                A |-> row.A, Ld |-> row.Ld, Sv |-> row.Sv],
     abilities |-> split_abilities(row.Abilities),
     damage_variants |-> <<>>,
     includes_wargear |->
         (row.IncludesWargear # "" /\ int(row.IncludesWargear) # 0),
     row |-> i]

(* Variant: a damage variant whose base is missing is silently dropped.   *)
Model_append_variant_dropping(self, base_name, threshold, table) ==
    IF ~Has(table, base_name) THEN Return(table)
    ELSE Return([table EXCEPT
             ![IndexOf(table, base_name)].damage_variants =
                 Append(@, <<threshold, self>>)])

(* Model.parse, table[base_name].damage_variants.append((threshold, self)) *)
Model_append_variant(self, base_name, threshold, table) ==
    IF ~Has(table, base_name) THEN Raise("KeyError")
    ELSE Return([table EXCEPT
             ![IndexOf(table, base_name)].damage_variants =
                 Append(@, <<threshold, self>>)])

(* Model.parse, the match at position m of the name.                      *)
Model_link_base(self, m, table) ==
    Model_append_variant(self, strip(SubSeq(self.name, 1, m - 1)),
                         int(self.name[m + 1]), table)

(* Variant: every row is also stored under its own name.                 *)
Model_link_storing_variant(self, table) ==
    IF model_pattern(self.name) # {}
    THEN Model_link_base(self, Last(model_pattern(self.name)),
                         Put(table, self))
    ELSE Return(Put(table, self))

Model_link(self, table) ==
    IF model_pattern(self.name) # {}
    THEN Model_link_base(self, Last(model_pattern(self.name)), table)
    ELSE Return(Put(table, self))

(* Model.parse(row, table) for the i-th row of the file.                  *)
Model_parse(row, table, i) ==
    IF ~IsInt(row.Cost) THEN Raise("ValueError")
    ELSE IF row.IncludesWargear # "" /\ ~IsInt(row.IncludesWargear)
    THEN Raise("ValueError")
    ELSE Model_link(Model_read(row, i), table)

(* BasicRecord.parse and its subclasses.                                  *)
Wargear_parse(row, table, i) ==
    IF ~IsInt(row.Cost) THEN Raise("ValueError")
    ELSE Return(Put(table, [name |-> row.Name, cost |-> int(row.Cost),
                            abilities |-> split_abilities(row.Abilities),
                            row |-> i]))

slot_names == <<"HQ", "Troops", "Fast Attack", "Elites", "Heavy Support">>

(* One slot column: min, max = row[slot].split("-"), then int() of each.  *)
parse_slot_parts(parts) ==
    IF Len(parts) # 2 THEN Raise("ValueError")
    ELSE IF Len(parts[1]) # 1 \/ Len(parts[2]) # 1 THEN Raise("ValueError")
    ELSE IF ~IsInt(parts[1][1]) \/ ~IsInt(parts[2][1])
    THEN Raise("ValueError")
    ELSE Return(<<int(parts[1][1]), int(parts[2][1])>>)

parse_slot(cell) == parse_slot_parts(split(cell, "-"))

Formation_read(row, i, slots) ==
    IF \E k \in 1..Len(slots) : ~Ok(slots[k]) THEN Raise("ValueError")
    ELSE Return([name |-> row.Name, cp |-> int(row.CP),
                 slots |-> [k \in 1..Len(slots) |-> slots[k].val],
                 transports_ratio |-> row.Transports, row |-> i])

Formation_put(self, table) ==
    IF Ok(self) THEN Return(Put(table, self.val)) ELSE self

Formation_parse(row, table, i) ==
    IF ~IsInt(row.CP) THEN Raise("ValueError")
    ELSE Formation_put(
             Formation_read(row, i,
                 [k \in 1..Len(slot_names) |-> parse_slot(row[slot_names[k]])]),
             table)

Ability_parse(row, table, i) ==
    Return(Put(table, [name |-> row.Name, description |-> row.Description,
                       row |-> i]))

Psyker_parse(row, table, i) ==
    IF ~IsInt(row.PowersPerTurn) \/ ~IsInt(row.DenyPerTurn)
       \/ ~IsInt(row.NumKnownPowers)
    THEN Raise("ValueError")
    ELSE Return(Put(table,
            [name |-> row.Name, powers_per_turn |-> int(row.PowersPerTurn),
             deny_per_turn |-> int(row.DenyPerTurn),
             num_known_powers |-> int(row.NumKnownPowers),
             discipline |-> row.Discipline, row |-> i]))

BasicRecord_parse(row, table, i) ==
    Return(Put(table, [name |-> row.Name, row |-> i]))

parse(create_record, row, table, i) ==
    CASE create_record = "Weapon" -> Weapon_parse(row, table, i)
      [] create_record = "Wargear" -> Wargear_parse(row, table, i)
      [] create_record = "Model" -> Model_parse(row, table, i)
      [] create_record = "Formation" -> Formation_parse(row, table, i)
      [] create_record = "Ability" -> Ability_parse(row, table, i)
      [] create_record = "Psyker" -> Psyker_parse(row, table, i)
      [] OTHER -> BasicRecord_parse(row, table, i)

(* read_table: parse the rows in file order into an empty table; an       *)
(* exception raised by a row leaves the loop and no table is returned.    *)
RECURSIVE read_rows(_, _, _, _)
read_row(r, rows, i, create_record) ==
    IF Ok(r) THEN read_rows(rows, i + 1, r.val, create_record) ELSE r

read_rows(rows, i, table, create_record) ==
    IF i > Len(rows) THEN Return(table)
    ELSE read_row(parse(create_record, rows[i], table, i), rows, i,
                  create_record)

read_table(rows, create_record) == read_rows(rows, 1, <<>>, create_record)

-----------------------------------------------------------------------------
(* Database: the lookups.                                                  *)

is_kill_team == game = "Kill Team"

(* lookup_item: prints and exits the process when the name is unknown.    *)
lookup_item(item) ==
    IF Has(costs, item) THEN Return(Get(costs, item)) ELSE Raise("SystemExit")

(* lookup_formation, lookup_ability: print when the name is unknown, then *)
(* fall off the end of the function, which returns None.                  *)
lookup_formation(formation) ==
    IF Has(formations, formation) THEN Return(Get(formations, formation))
    ELSE Return(None)

lookup_ability(ability) ==
    IF Has(abilities, ability) THEN Return(Get(abilities, ability))
    ELSE Return(None)

(* Variant: a model that is not a psyker ends the process.               *)
lookup_psyker_exiting(model_name, quiet) ==
    IF Has(psykers, model_name) THEN Return(Get(psykers, model_name))
    ELSE Raise("SystemExit")

(* lookup_psyker: quiet only decides whether the miss is printed; the    *)
(* function then falls off its end and returns None.                      *)
lookup_psyker(model_name, quiet) ==
    IF Has(psykers, model_name) THEN Return(Get(psykers, model_name))
    ELSE Return(None)

(* Attribute access on a looked-up value.                                 *)
getattr(obj, attr) ==
    IF attr \in DOMAIN obj THEN Return(obj[attr]) ELSE Raise("AttributeError")

-----------------------------------------------------------------------------
(* Database: squad costs.  squad.Items is a mapping; it is modelled as    *)
(* the sequence of its (name, quantity) pairs in iteration order.         *)

(* Variant: the quantity of a model item is not multiplied in.           *)
RECURSIVE squad_models_cost_loop_no_quantity(_, _, _)
squad_models_cost_loop_no_quantity(items, i, total) ==
    IF i > Len(items) THEN Return(total)
    ELSE LET item == items[i][1]
         IN IF Has(models, item)
            THEN LET r == lookup_item(item)
                 IN IF ~Ok(r) THEN r
                    ELSE squad_models_cost_loop_no_quantity(items, i + 1,
                             total + r.val.cost)
            ELSE squad_models_cost_loop_no_quantity(items, i + 1, total)

RECURSIVE squad_models_cost_loop(_, _, _)
squad_models_cost_loop(items, i, total) ==
    IF i > Len(items) THEN Return(total)
    ELSE LET item == items[i][1]
             quantity == items[i][2]
         IN IF Has(models, item)
            THEN LET r == lookup_item(item)
                 IN IF ~Ok(r) THEN r
                    ELSE squad_models_cost_loop(items, i + 1,
                             total + r.val.cost * quantity)
            ELSE squad_models_cost_loop(items, i + 1, total)

squad_models_cost(squad) == squad_models_cost_loop(squad.Items, 1, 0)

RECURSIVE squad_wargear_included_loop(_, _, _)
squad_wargear_included_loop(items, i, include_wargear) ==
    IF i > Len(items) THEN Return(include_wargear)
    ELSE LET item == items[i][1]
         IN IF Has(models, item)
            THEN LET r == lookup_item(item)
                     a == getattr(r.val, "includes_wargear")
                 IN IF ~Ok(r) THEN r
                    ELSE IF ~Ok(a) THEN a
                    ELSE IF a.val
                    THEN squad_wargear_included_loop(items, i + 1, TRUE)
                    ELSE IF include_wargear THEN Raise("AssertionError")
                    ELSE squad_wargear_included_loop(items, i + 1,
                             include_wargear)
            ELSE squad_wargear_included_loop(items, i + 1, include_wargear)

squad_wargear_included(squad) ==
    squad_wargear_included_loop(squad.Items, 1, FALSE)

RECURSIVE squad_wargear_cost_loop(_, _, _)
squad_wargear_cost_loop(items, i, total) ==
    IF i > Len(items) THEN Return(total)
    ELSE LET item == items[i][1]
             quantity == items[i][2]
         IN IF Has(weapons, item) \/ Has(wargear, item)
            THEN LET r == lookup_item(item)
                 IN IF ~Ok(r) THEN r
                    ELSE squad_wargear_cost_loop(items, i + 1,
                             total + r.val.cost * quantity)
            ELSE squad_wargear_cost_loop(items, i + 1, total)

(* Variant: the wargear is charged even when the models include it.      *)
squad_wargear_cost_always_charged(squad) ==
    LET inc == squad_wargear_included(squad)
    IN IF ~Ok(inc) THEN inc
       ELSE squad_wargear_cost_loop(squad.Items, 1, 0)

squad_wargear_cost(squad) ==
    LET inc == squad_wargear_included(squad)
    IN IF ~Ok(inc) THEN inc
       ELSE IF inc.val THEN Return(0)
       ELSE squad_wargear_cost_loop(squad.Items, 1, 0)

squad_points_cost(squad) ==
    LET m == squad_models_cost(squad)
        w == squad_wargear_cost(squad)
    IN IF ~Ok(m) THEN m
       ELSE IF ~Ok(w) THEN w
       ELSE Return(m.val + w.val)

RECURSIVE detachment_points_cost_loop(_, _, _)
detachment_points_cost_loop(units, i, total) ==
    IF i > Len(units) THEN Return(total)
    ELSE LET r == squad_points_cost(units[i])
         IN IF ~Ok(r) THEN r
            ELSE detachment_points_cost_loop(units, i + 1, total + r.val)

detachment_points_cost(detachment) ==
    detachment_points_cost_loop(detachment.Units, 1, 0)

RECURSIVE army_points_cost_loop(_, _, _)
army_points_cost_loop(detachments, i, total) ==
    IF i > Len(detachments) THEN Return(total)
    ELSE LET r == detachment_points_cost(detachments[i])
         IN IF ~Ok(r) THEN r
            ELSE army_points_cost_loop(detachments, i + 1, total + r.val)

(* Variant: the loop returns after the first detachment.                 *)
army_points_cost_first_detachment(a) ==
    IF a.Detachments = <<>> THEN Return(0)
    ELSE detachment_points_cost(a.Detachments[1])

army_points_cost(a) == army_points_cost_loop(a.Detachments, 1, 0)

(* get_squad_items: (weapons, models, wargear, num_models).               *)
RECURSIVE get_squad_items_loop(_, _, _)
get_squad_items_loop(squad_items, i, acc) ==
    IF i > Len(squad_items) THEN Return(acc)
    ELSE LET item == squad_items[i][1]
             quantity == squad_items[i][2]
         IN IF Has(weapons, item) /\ item \notin Elems(acc[1])
            THEN get_squad_items_loop(squad_items, i + 1,
                     [acc EXCEPT ![1] = Append(@, item)])
            ELSE IF Has(models, item) /\ item \notin Elems(acc[2])
            THEN get_squad_items_loop(squad_items, i + 1,
                     [acc EXCEPT ![2] = Append(@, item), ![4] = @ + quantity])
            ELSE IF Has(wargear, item) /\ item \notin Elems(acc[3])
            THEN get_squad_items_loop(squad_items, i + 1,
                     [acc EXCEPT ![3] = Append(@, item)])
            ELSE get_squad_items_loop(squad_items, i + 1, acc)

get_squad_items(squad) ==
    get_squad_items_loop(squad.Items, 1, <<<<>>, <<>>, <<>>, 0>>)

(* army_cp_total: 3 for a battle-forged army plus each formation's cp.    *)
battle_forged_cp == 3

RECURSIVE army_cp_total_loop(_, _, _)
army_cp_total_loop(detachments, i, total) ==
    IF i > Len(detachments) THEN Return(total)
    ELSE LET formation == lookup_formation(detachments[i].Type)
             cp == getattr(formation.val, "cp")
         IN IF ~Ok(cp) THEN cp
            ELSE army_cp_total_loop(detachments, i + 1, total + cp.val)

(* Variant: the total starts from 0 instead of the battle-forged 3.      *)
army_cp_total_from_zero(a) == army_cp_total_loop(a.Detachments, 1, 0)

army_cp_total(a) == army_cp_total_loop(a.Detachments, 1, battle_forged_cp)

-----------------------------------------------------------------------------
(* Database: abilities.  A squad is a mapping that may or may not have    *)
(* the keys Specialist and Experience.                                    *)

(* for ability in l: if not ability in abilities: abilities.append(...)   *)
RECURSIVE append_unseen(_, _)
append_unseen(abilities_list, l) ==
    IF l = <<>> THEN abilities_list
    ELSE append_unseen(
             IF Head(l) \in Elems(abilities_list) THEN abilities_list
             ELSE Append(abilities_list, Head(l)),
             Tail(l))

(* Variant: the upper breakpoints are tested with > instead of >=.       *)
get_squad_level_strict(squad) ==
    LET xp == IF "Experience" \in DOMAIN squad THEN squad.Experience ELSE 0
    IN IF xp > 12 THEN 3
       ELSE IF xp > 7 THEN 2
       ELSE IF xp >= 3 THEN 1
       ELSE 0

get_squad_level(squad) ==
    LET xp == IF "Experience" \in DOMAIN squad THEN squad.Experience ELSE 0
    IN IF xp >= 12 THEN 3
       ELSE IF xp >= 7 THEN 2
       ELSE IF xp >= 3 THEN 1
       ELSE 0

(* "%s (%s)" % (specialist, i) for i in range(1, level + 1)               *)
specialist_abilities(specialist, level) ==
    [i \in 1..level |-> specialist \o <<" ", "(", ToString(i), ")">>]

RECURSIVE list_squad_abilities_items(_, _, _)
(* Variant: the abilities of an item are appended without the test.      *)
list_squad_abilities_item_all(r, items, i, abilities_list) ==
    IF ~Ok(r) THEN r
    ELSE list_squad_abilities_items(items, i + 1,
             abilities_list \o r.val.abilities)

list_squad_abilities_item(r, items, i, abilities_list) ==
    IF ~Ok(r) THEN r
    ELSE list_squad_abilities_items(items, i + 1,
             append_unseen(abilities_list, r.val.abilities))

list_squad_abilities_items(items, i, abilities_list) ==
    IF i > Len(items) THEN Return(abilities_list)
    ELSE list_squad_abilities_item(lookup_item(items[i][1]), items, i,
                                   abilities_list)

list_squad_abilities_specialist(squad, r) ==
    IF ~Ok(r) THEN r
    ELSE IF "Specialist" \in DOMAIN squad /\ is_kill_team
    THEN Return(r.val \o specialist_abilities(squad.Specialist,
                                              get_squad_level(squad)))
    ELSE r

list_squad_abilities(squad) ==
    list_squad_abilities_specialist(squad,
        list_squad_abilities_items(squad.Items, 1, <<>>))

(* list_army_abilities: seen holds exactly the names already appended.    *)
RECURSIVE concat(_)
concat(ls) == IF ls = <<>> THEN <<>> ELSE Head(ls) \o concat(Tail(ls))

army_units(a) ==
    concat([i \in 1..Len(a.Detachments) |-> a.Detachments[i].Units])

RECURSIVE list_army_abilities_units(_, _, _)
(* Variant: every squad's abilities are appended without the seen test.  *)
list_army_abilities_unit_all(r, units, i, abilities_list) ==
    IF ~Ok(r) THEN r
    ELSE list_army_abilities_units(units, i + 1, abilities_list \o r.val)

list_army_abilities_unit(r, units, i, abilities_list) ==
    IF ~Ok(r) THEN r
    ELSE list_army_abilities_units(units, i + 1,
             append_unseen(abilities_list, r.val))

list_army_abilities_units(units, i, abilities_list) ==
    IF i > Len(units) THEN Return(abilities_list)
    ELSE list_army_abilities_unit(list_squad_abilities(units[i]), units, i,
                                  abilities_list)

list_army_abilities(a) == list_army_abilities_units(army_units(a), 1, <<>>)

(* lookup_buff: the squad argument may be None; the value returned is     *)
(* None or the integer 30, kept apart by a tag.                           *)
IsNone(v) == "none" \in DOMAIN v
PyInt(n) == [int |-> n]

(* Variant: the buff is given for every stat.                            *)
lookup_buff_abilities_any_stat(r, stat_name, item) ==
    IF ~Ok(r) THEN r
    ELSE IF /\ item.name \in {<<"Frag", " ", "Grenade">>,
                              <<"Krak", " ", "Grenade">>}
            /\ <<"Auxiliary", " ", "Grenade", " ", "Launcher">> \in Elems(r.val)
    THEN Return(PyInt(30))
    ELSE Return(None)

lookup_buff_abilities(r, stat_name, item) ==
    IF ~Ok(r) THEN r
    ELSE IF /\ stat_name = "Range"
            /\ item.name \in {<<"Frag", " ", "Grenade">>,
                              <<"Krak", " ", "Grenade">>}
            /\ <<"Auxiliary", " ", "Grenade", " ", "Launcher">> \in Elems(r.val)
    THEN Return(PyInt(30))
    ELSE Return(None)

lookup_buff(squad, stat_name, item) ==
    IF IsNone(squad) THEN Return(None)
    ELSE IF is_kill_team
    THEN lookup_buff_abilities(list_squad_abilities(squad), stat_name, item)
    ELSE Return(None)

-----------------------------------------------------------------------------
(* output.Table: the column ids and the rows of cells.  A cell is its     *)
(* text and the style set_cell recorded for it ("" when none was given).  *)
(* Every text is a token sequence: a csv cell c is shown as <<c>>, a      *)
(* number n as <<ToString(n)>>.                                           *)

Table == [columns |-> <<>>, rows |-> <<>>]

add_column(t, column_id) == [t EXCEPT !.columns = Append(@, column_id)]

add_row(t) ==
    [t EXCEPT !.rows =
        Append(@, [k \in 1..Len(t.columns) |-> [text |-> <<"-">>, style |-> ""]])]

set_cell(t, column_id, text, style) ==
    IF column_id \notin Elems(t.columns) THEN t
    ELSE [t EXCEPT !.rows[Len(t.rows)][First(t.columns, column_id)] =
             [text |-> text, style |-> IF style # "" THEN style ELSE @.style]]

(* The text of a stat of a record: the name and the abilities string are  *)
(* token sequences already.                                               *)
Text(stat, value) == IF stat \in {"Name", "Abilities"} THEN value ELSE <<value>>

(* squad["Items"][name]                                                    *)
Quantity(squad, name) ==
    squad.Items[CHOOSE i \in 1..Len(squad.Items) : squad.Items[i][1] = name][2]

(* The names used in the files and in the army lists.  Plasma, Brigade  *)
(* and Fearless are in no table.                                          *)
N ==
    [Gun |-> <<"Gun">>,
     GunA |-> <<"Gun", " ", "[", "a", "]">>,
     GunB |-> <<"Gun", " ", "[", "b", "]">>,
     Flamer |-> <<"Flamer">>,
     Shield |-> <<"Shield">>,
     Marine |-> <<"Marine">>,
     Robot |-> <<"Robot">>,
     Robot5W |-> <<"Robot", " ", "(", "5", "W", ")">>,
     Robot3W |-> <<"Robot", " ", "(", "3", "W", ")">>,
     Plasma |-> <<"Plasma">>,
     Patrol |-> <<"Patrol">>,
     Battalion |-> <<"Battalion">>,
     Brigade |-> <<"Brigade">>,
     Stubborn |-> <<"Stubborn">>,
     Fearless |-> <<"Fearless">>,
     Librarian |-> <<"Librarian">>,
     Frag |-> <<"Frag", " ", "Grenade">>,
     Krak |-> <<"Krak", " ", "Grenade">>,
     Launcher |-> <<"Launcher">>,
     AGL |-> <<"Auxiliary", " ", "Grenade", " ", "Launcher">>,
     Blast |-> <<"Blast">>,
     Veteran |-> <<"Veteran">>]

(* sorted(item_names): the names of the model in the order str compares   *)
(* them.                                                                  *)
name_order ==
    <<N.Flamer, N.Frag, N.Gun, N.GunA, N.GunB, N.Krak, N.Launcher, N.Marine,
      N.Plasma, N.Robot, N.Robot3W, N.Robot5W, N.Shield>>

RECURSIVE sorted_from(_, _)
sorted_from(order, names) ==
    IF order = <<>> THEN <<>>
    ELSE (IF Head(order) \in Elems(names) THEN <<Head(order)>> ELSE <<>>)
         \o sorted_from(Tail(order), names)

sorted(names) == sorted_from(name_order, names)

(* list_army_weapons, list_army_models: the item names of the army that   *)
(* are in the table, each once, in order of first occurrence.             *)
RECURSIVE list_army_items_loop(_, _, _)
list_army_items_loop(items, table, seen) ==
    IF items = <<>> THEN seen
    ELSE list_army_items_loop(Tail(items), table,
             IF Has(table, Head(items)[1]) /\ Head(items)[1] \notin Elems(seen)
             THEN Append(seen, Head(items)[1]) ELSE seen)

list_army_items(a, table) ==
    list_army_items_loop(
        concat([i \in 1..Len(army_units(a)) |-> army_units(a)[i].Items]),
        table, <<>>)

-----------------------------------------------------------------------------
(* writers/weaponstable.py                                                 *)

weapon_stats == <<"Name", "Cost", "Range", "Type", "S", "AP", "D", "Abilities">>

(* The Qty cell of a row that carries the quantity.                       *)
weapons_table_qty(squad, name) ==
    IF IsNone(squad) THEN <<"-">> ELSE <<ToString(Quantity(squad, name))>>

(* Variant: the Cost cell of a stat row ignores wargear_included.         *)
weapons_table_mode_cost_shown(stat, text, multiple_modes, wargear_included) ==
    IF stat = "Cost" /\ multiple_modes THEN <<"-">> ELSE text

(* The stat rows: if stat == "Cost" and (multiple_modes or                *)
(* wargear_included): value = "-"                                         *)
weapons_table_mode_cost(stat, text, multiple_modes, wargear_included) ==
    IF stat = "Cost" /\ (multiple_modes \/ wargear_included) THEN <<"-">>
    ELSE text

write_weapons_table(item_names, squad) ==
    LET columns(k) ==
            IF ~IsNone(squad) /\ weapon_stats[k] = "Abilities" THEN <<>>
            ELSE IF is_kill_team /\ ~IsNone(squad) /\ weapon_stats[k] = "Cost"
            THEN <<>>
            ELSE <<weapon_stats[k]>>
        RECURSIVE add_columns(_, _)
        add_columns(t, k) ==
            IF k > Len(weapon_stats)
            THEN IF ~IsNone(squad) /\ ~is_kill_team THEN add_column(t, "Qty")
                 ELSE t
            ELSE add_columns(
                     IF columns(k) = <<>> THEN t ELSE add_column(t, weapon_stats[k]),
                     k + 1)
        (* the extra line of a weapon with several modes *)
        header_value(item, stat, wargear_included) ==
            IF stat # "Cost" /\ stat # "Name" THEN <<"-">>
            ELSE IF stat = "Cost" /\ wargear_included THEN <<"-">>
            ELSE Text(stat, item.stats[stat])
        (* for stat in stats: the cells lo..hi, the first half of them     *)
        (* before the second                                               *)
        RECURSIVE header_cells(_, _, _, _, _)
        header_cells(r, item, wargear_included, lo, hi) ==
            IF ~Ok(r) \/ lo > hi THEN r
            ELSE IF lo = hi
            THEN Return(set_cell(r.val, weapon_stats[lo],
                     header_value(item, weapon_stats[lo], wargear_included), ""))
            ELSE header_cells(
                     header_cells(r, item, wargear_included, lo, (lo + hi) \div 2),
                     item, wargear_included, (lo + hi) \div 2 + 1, hi)
        header_row(t, item, name, wargear_included) ==
            set_cell(header_cells(Return(add_row(t)), item, wargear_included,
                                  1, Len(weapon_stats)).val,
                     "Qty", weapons_table_qty(squad, name), "")
        (* the stat rows *)
        mode_cell(t, buffed_value, mode, multiple_modes, wargear_included, k) ==
            IF ~Ok(buffed_value) THEN buffed_value
            ELSE Return(
                     set_cell(t, weapon_stats[k],
                         weapons_table_mode_cost(weapon_stats[k],
                             IF ~IsNone(buffed_value.val)
                             THEN <<ToString(buffed_value.val.int)>>
                             ELSE Text(weapon_stats[k], mode.stats[weapon_stats[k]]),
                             multiple_modes, wargear_included),
                         IF ~IsNone(buffed_value.val) THEN "stat-buffed" ELSE ""))
        (* for stat in stats: the cells lo..hi of the row, the first half  *)
        (* of them before the second; an exception leaves the loop         *)
        RECURSIVE mode_cells_range(_, _, _, _, _, _)
        mode_cells_range(r, mode, multiple_modes, wargear_included, lo, hi) ==
            IF ~Ok(r) \/ lo > hi THEN r
            ELSE IF lo = hi
            THEN mode_cell(r.val, lookup_buff(squad, weapon_stats[lo], mode),
                           mode, multiple_modes, wargear_included, lo)
            ELSE mode_cells_range(
                     mode_cells_range(r, mode, multiple_modes, wargear_included,
                                      lo, (lo + hi) \div 2),
                     mode, multiple_modes, wargear_included,
                     (lo + hi) \div 2 + 1, hi)
        mode_cells(t, mode, multiple_modes, wargear_included, k) ==
            mode_cells_range(Return(t), mode, multiple_modes, wargear_included,
                             k, Len(weapon_stats))
        RECURSIVE mode_rows(_, _, _, _, _)
        mode_row(r, modes, name, wargear_included, j) ==
            IF ~Ok(r) THEN r
            ELSE mode_rows(
                     set_cell(r.val, "Qty",
                         IF Len(modes) > 1 THEN <<"-">>
                         ELSE weapons_table_qty(squad, name), ""),
                     modes, name, wargear_included, j + 1)
        mode_rows(t, modes, name, wargear_included, j) ==
            IF j > Len(modes) THEN Return(t)
            ELSE mode_row(mode_cells(add_row(t), modes[j], Len(modes) > 1,
                                     wargear_included, 1),
                          modes, name, wargear_included, j)
        (* for name in sorted(item_names) *)
        RECURSIVE items_loop(_, _, _, _)
        item_modes(t, item, name, wargear_included) ==
            IF ~Ok(item) THEN item
            ELSE IF "modes" \notin DOMAIN item.val THEN Raise("AttributeError")
            ELSE mode_rows(
                     IF Len(get_modes(item.val)) > 1
                     THEN header_row(t, item.val, name, wargear_included)
                     ELSE t,
                     get_modes(item.val), name, wargear_included, 1)
        item_done(r, names, wargear_included, i) ==
            IF ~Ok(r) THEN r
            ELSE items_loop(r.val, names, wargear_included, i + 1)
        items_loop(t, names, wargear_included, i) ==
            IF i > Len(names) THEN Return(t)
            ELSE item_done(item_modes(t, lookup_item(names[i]), names[i],
                                      wargear_included),
                           names, wargear_included, i)
        rows(wargear_included) ==
            IF ~Ok(wargear_included) THEN wargear_included
            ELSE items_loop(add_columns(Table, 1), sorted(item_names),
                            wargear_included.val, 1)
    IN IF Len(item_names) = 0 THEN Return(None)
       ELSE rows(IF IsNone(squad) THEN Return(FALSE)
                 ELSE squad_wargear_included(squad))

-----------------------------------------------------------------------------
(* writers/modelstable.py                                                  *)

model_stats == <<"Name", "Cost", "M", "WS", "BS", "S", "T", "W", "A", "Ld", "Sv">>

(* The Qty cell of the row of a variant.                                  *)
models_table_qty(first, squad, name) ==
    IF first \/ IsNone(squad) THEN <<"-">>
    ELSE <<ToString(Quantity(squad, name))>>

write_models_table(item_names, squad) ==
    LET RECURSIVE add_columns(_, _)
        add_columns(t, k) ==
            IF k > Len(model_stats)
            THEN IF ~IsNone(squad) /\ ~is_kill_team THEN add_column(t, "Qty")
                 ELSE t
            ELSE add_columns(
                     IF model_stats[k] = "Cost" /\ is_kill_team /\ ~IsNone(squad)
                     THEN t ELSE add_column(t, model_stats[k]),
                     k + 1)
        value(variant, stat, first) ==
            IF stat \in {"WS", "BS", "Sv"} THEN <<variant.stats[stat], "+">>
            ELSE IF stat = "M" THEN <<variant.stats[stat], "''">>
            ELSE IF stat = "Cost" /\ ~first THEN <<"-">>
            ELSE Text(stat, variant.stats[stat])
        (* for stat in stats: the cells lo..hi, the first half of them     *)
        (* before the second                                               *)
        RECURSIVE cells(_, _, _, _, _)
        cells(r, variant, first, lo, hi) ==
            IF ~Ok(r) \/ lo > hi THEN r
            ELSE IF lo = hi
            THEN Return(set_cell(r.val, model_stats[lo],
                                 value(variant, model_stats[lo], first), ""))
            ELSE cells(cells(r, variant, first, lo, (lo + hi) \div 2),
                       variant, first, (lo + hi) \div 2 + 1, hi)
        RECURSIVE variant_rows(_, _, _, _)
        variant_row(r, variants, name, v) ==
            IF ~Ok(r) THEN r ELSE variant_rows(r.val, variants, name, v + 1)
        variant_rows(t, variants, name, v) ==
            IF v > Len(variants) THEN Return(t)
            ELSE variant_row(
                     Return(set_cell(cells(Return(add_row(t)), variants[v], v = 1,
                                      1, Len(model_stats)).val,
                                "Qty", models_table_qty(v = 1, squad, name), "")),
                     variants, name, v)
        RECURSIVE items_loop(_, _, _)
        item_rows(t, item, name) ==
            IF ~Ok(item) THEN item
            ELSE IF "damage_variants" \notin DOMAIN item.val
            THEN Raise("AttributeError")
            ELSE variant_rows(t,
                     <<item.val>> \o
                     [j \in 1..Len(item.val.damage_variants) |->
                         item.val.damage_variants[j][2]],
                     name, 1)
        item_done(r, names, i) ==
            IF ~Ok(r) THEN r ELSE items_loop(r.val, names, i + 1)
        items_loop(t, names, i) ==
            IF i > Len(names) THEN Return(t)
            ELSE item_done(item_rows(t, lookup_item(names[i]), names[i]),
                           names, i)
    IN IF Len(item_names) = 0 THEN Return(None)
       ELSE items_loop(add_columns(Table, 1), sorted(item_names), 1)

-----------------------------------------------------------------------------
(* output.Outfile.  A writer is modelled by the sequence of Outfile calls *)
(* it makes, ended by the exception it raises if it raises one; run       *)
(* performs them on an Outfile.  A written line is kept with the padding  *)
(* that was written in front of it and the stack depth at that moment.    *)

Outfile == [stack |-> <<>>, f |-> <<>>]

tabsize == 4

pad(o) == Len(o.stack) * tabsize

start_tag(tag) == [cmd |-> "start_tag", tag |-> tag, text |-> <<>>]
end_tag == [cmd |-> "end_tag", tag |-> "", text |-> <<>>]
content(text) == [cmd |-> "content", tag |-> "", text |-> text]
oneliner(tag, text) == [cmd |-> "oneliner", tag |-> tag, text |-> text]
comment(text) == [cmd |-> "comment", tag |-> "", text |-> text]
raise(exc) == [cmd |-> "raise", tag |-> exc, text |-> <<>>]

(* The calls a writer makes after a call of the database returned r.      *)
after(r, cmds) == IF Ok(r) THEN cmds ELSE <<raise(r.exc)>>

(* The calls of the parts of a writer, one part after the other: an       *)
(* exception raised in a part leaves the writer, the parts after it are   *)
(* not run.                                                               *)
raises(cmds) == \E i \in 1..Len(cmds) : cmds[i].cmd = "raise"

chain(parts) ==
    concat(SubSeq(parts, 1,
        IF \E k \in 1..Len(parts) : raises(parts[k])
        THEN CHOOSE k \in 1..Len(parts) :
                 /\ raises(parts[k])
                 /\ \A j \in 1..(k - 1) : ~raises(parts[j])
        ELSE Len(parts)))

Outfile_line(o, kind, tag, text) ==
    [o EXCEPT !.f = Append(@, [pad |-> pad(o), depth |-> Len(o.stack),
                               kind |-> kind, tag |-> tag, text |-> text])]

Outfile_start_tag(o, tag) ==
    [Outfile_line(o, "start_tag", tag, <<>>) EXCEPT !.stack = Append(@, tag)]

(* Variant: end_tag writes the closing tag without popping the stack.     *)
Outfile_end_tag_keeping(o) ==
    IF o.stack = <<>> THEN Raise("IndexError")
    ELSE Return(Outfile_line(o, "end_tag", o.stack[Len(o.stack)], <<>>))

(* end_tag pops the tag, then writes the padding of the shorter stack.    *)
Outfile_end_tag(o) ==
    IF o.stack = <<>> THEN Raise("IndexError")
    ELSE Return(Outfile_line(
             [o EXCEPT !.stack = SubSeq(@, 1, Len(@) - 1)],
             "end_tag", o.stack[Len(o.stack)], <<>>))

Outfile_call(o, c) ==
    CASE c.cmd = "start_tag" -> Return(Outfile_start_tag(o, c.tag))
      [] c.cmd = "end_tag" -> Outfile_end_tag(o)
      [] c.cmd = "raise" -> Raise(c.tag)
      [] OTHER -> Return(Outfile_line(o, c.cmd, c.tag, c.text))

(* One call of a writer; the exception that ends the writer is kept with   *)
(* the Outfile as the calls before it left it.                            *)
run_call(o, r) == IF Ok(r) THEN r ELSE [r EXCEPT !.val = o]

(* The calls cmds[lo..hi] in order, on the result of the calls before     *)
(* them: the first half of the range, then the second.                    *)
RECURSIVE run_range(_, _, _, _)
run_range(r, cmds, lo, hi) ==
    IF ~Ok(r) \/ lo > hi THEN r
    ELSE IF lo = hi THEN run_call(r.val, Outfile_call(r.val, cmds[lo]))
    ELSE run_range(run_range(r, cmds, lo, (lo + hi) \div 2),
                   cmds, (lo + hi) \div 2 + 1, hi)

run(o, cmds, i) == run_range(Return(o), cmds, i, Len(cmds))

(* Table.write: the header row, then one row of cells per table row.      *)
Table_write(t) ==
    <<start_tag("table"), start_tag("tr")>>
    \o [k \in 1..Len(t.columns) |-> content(<<t.columns[k]>>)]
    \o <<end_tag>>
    \o concat([i \in 1..Len(t.rows) |->
                  <<start_tag("tr")>>
                  \o [k \in 1..Len(t.columns) |-> content(t.rows[i][k].text)]
                  \o <<end_tag>>])
    \o <<end_tag>>

-----------------------------------------------------------------------------
(* writers/forceorg.py                                                     *)

(* The number of squads of the detachment whose Slot is in slots.         *)
count_slots(detachment, slots) ==
    Cardinality({i \in 1..Len(detachment.Units) :
                    detachment.Units[i].Slot \in slots})

ratio(count, limit) == <<ToString(count), "/", ToString(limit)>>

(* Variant: the transports are counted with no check of the ratio.        *)
force_org_transports_unchecked(formation, detachment) ==
    <<oneliner("td",
          ratio(count_slots(detachment, {"Transports"}),
                Len(detachment.Units) - count_slots(detachment, {"Transports"}))),
      end_tag, end_tag>>

(* assert formation.transports_ratio == "1:1", then the transports cell.  *)
force_org_transports(formation, detachment) ==
    IF formation.transports_ratio # "1:1" THEN <<raise("AssertionError")>>
    ELSE <<oneliner("td",
               ratio(count_slots(detachment, {"Transports"}),
                     Len(detachment.Units)
                         - count_slots(detachment, {"Transports"}))),
           end_tag, end_tag>>

(* The unit summary: one row per squad with its name, slot and cost.      *)
force_org_units(detachment) ==
    <<comment(<<"Unit summary">>), start_tag("table"), start_tag("tr"),
      oneliner("th", <<"Unit">>), oneliner("th", <<"Slot">>),
      oneliner("th", <<"Cost">>), end_tag>>
    \o concat([i \in 1..Len(detachment.Units) |->
          <<start_tag("tr"), oneliner("td", <<detachment.Units[i].Name>>),
            oneliner("td", <<detachment.Units[i].Slot>>)>>
          \o after(squad_points_cost(detachment.Units[i]),
                <<oneliner("td",
                      <<ToString(squad_points_cost(detachment.Units[i]).val)>>),
                  end_tag>>)])
    \o <<end_tag, end_tag>>

(* The formation table: the slot names, the slot totals and limits, the   *)
(* transports.                                                            *)
force_org_formation(formation, detachment) ==
    <<comment(<<"Formation">>), start_tag("table"), start_tag("tr")>>
    \o [k \in 1..Len(slot_names) |-> oneliner("th", <<slot_names[k]>>)]
    \o <<oneliner("th", <<"Transports">>), end_tag, start_tag("tr")>>
    \o [k \in 1..Len(slot_names) |->
           oneliner("td", ratio(count_slots(detachment, {slot_names[k]}),
                                formation.slots[k][2]))]
    \o force_org_transports(formation, detachment)
    \o force_org_units(detachment)

force_org_cost(formation, cost, detachment) ==
    IF IsNone(formation) THEN <<raise("AttributeError")>>
    ELSE <<oneliner("td", <<ToString(formation.cp)>>), oneliner("th", <<"Cost">>)>>
         \o after(cost,
                  <<oneliner("td", <<ToString(cost.val)>>), end_tag, end_tag>>
                  \o force_org_formation(formation, detachment))

write_force_organisation_chart(detachment) ==
    <<start_tag("div"), comment(<<detachment.Name>>), start_tag("table"),
      start_tag("tr"), oneliner("th", <<detachment.Name>>), end_tag,
      start_tag("tr"), oneliner("th", <<"Type">>),
      oneliner("td", detachment.Type), oneliner("th", <<"CP">>)>>
    \o force_org_cost(lookup_formation(detachment.Type).val,
                      detachment_points_cost(detachment), detachment)

-----------------------------------------------------------------------------
(* writers/wargeartable.py, writers/abilitiestable.py,                     *)
(* writers/psykertable.py                                                  *)

(* The comment a table writer writes, then Table.write of the table it    *)
(* built, or the exception that left the writer while it built the table. *)
(* A writer that got no item names returns before it writes anything.     *)
table_commands(title, r) ==
    IF ~Ok(r) THEN <<comment(<<title>>), raise(r.exc)>>
    ELSE IF IsNone(r.val) THEN <<>>
    ELSE <<comment(<<title>>)>> \o Table_write(r.val)

wargear_table_columns(squad, wargear_included) ==
    <<"Item">>
    \o (IF IsNone(squad) \/ (~is_kill_team /\ ~wargear_included)
        THEN <<"Cost">> ELSE <<>>)
    \o (IF IsNone(squad) THEN <<"Abilities">> ELSE <<>>)
    \o (IF ~IsNone(squad) /\ ~is_kill_team THEN <<"Qty">> ELSE <<>>)

wargear_table_row(t, item, name, squad) ==
    set_cell(
        set_cell(
            set_cell(set_cell(add_row(t), "Item", name, ""),
                     "Cost", <<ToString(item.cost)>>, ""),
            "Abilities", join(<<", ">>, item.abilities), ""),
        "Qty",
        IF IsNone(squad) THEN <<"-">> ELSE <<ToString(Quantity(squad, name))>>,
        "")

RECURSIVE wargear_table_rows(_, _, _, _)
wargear_table_item(t, item, names, squad, i) ==
    IF ~Ok(item) THEN item
    ELSE wargear_table_rows(wargear_table_row(t, item.val, names[i], squad),
                            names, squad, i + 1)

wargear_table_rows(t, names, squad, i) ==
    IF i > Len(names) THEN Return(t)
    ELSE wargear_table_item(t, lookup_item(names[i]), names, squad, i)

wargear_table(wargear_included, item_names, squad) ==
    IF ~Ok(wargear_included) THEN wargear_included
    ELSE wargear_table_rows(
             [Table EXCEPT
                 !.columns = wargear_table_columns(squad, wargear_included.val)],
             sorted(item_names), squad, 1)

write_wargear_table(item_names, squad) ==
    IF Len(item_names) = 0 THEN Return(None)
    ELSE wargear_table(IF IsNone(squad) THEN Return(FALSE)
                       ELSE squad_wargear_included(squad),
                       item_names, squad)

(* sorted(abilities): the ability names of the data directories in the    *)
(* order str compares them; "" comes first.                               *)
ability_order ==
    <<<<>>, N.AGL, N.Blast, N.Stubborn>>
    \o [i \in 1..3 |-> N.Veteran \o <<" ", "(", ToString(i), ")">>]

(* One line per ability; lookup_ability(ability).description fails for a  *)
(* name that is not in the abilities file.                                *)
RECURSIVE abilities_table_rows(_, _)
abilities_table_row(ability, names, i) ==
    IF IsNone(ability) THEN <<raise("AttributeError")>>
    ELSE <<content(names[i] \o <<": ", ability.description>>)>>
         \o abilities_table_rows(names, i + 1)

abilities_table_rows(names, i) ==
    IF i > Len(names) THEN <<end_tag>>
    ELSE abilities_table_row(lookup_ability(names[i]).val, names, i)

write_abilities_table(abilities_list) ==
    IF Len(abilities_list) = 0 THEN <<>>
    ELSE <<comment(<<"Abilities">>), start_tag("table"),
           content(<<"Abilities">>)>>
         \o abilities_table_rows(sorted_from(ability_order, abilities_list), 1)

(* The names an attribute access on a Database finds: its methods, its    *)
(* one property and the private attributes of __init__, which the class   *)
(* body stores under the mangled names.                                   *)
Database_attributes ==
    {"is_kill_team", "lookup_item", "lookup_formation", "lookup_ability",
     "lookup_psyker", "lookup_quirk", "lookup_background", "lookup_demeanour",
     "lookup_buff", "army_points_cost", "detachment_points_cost",
     "squad_models_cost", "squad_wargear_included", "squad_wargear_cost",
     "squad_points_cost", "get_squad_items", "army_cp_total",
     "list_army_weapons", "list_army_wargear", "list_army_models",
     "list_army_abilities", "get_squad_level", "list_squad_abilities",
     "_Database__game", "_Database__weapons", "_Database__wargear",
     "_Database__models", "_Database__formations", "_Database__abilities",
     "_Database__psykers", "_Database__demeanours", "_Database__backgrounds",
     "_Database__quirks", "_Database__costs"}

psyker_text(psyker) ==
    <<"Can manifest ", ToString(psyker.powers_per_turn), " and deny ",
      ToString(psyker.deny_per_turn), " psychic powers per turn. Knows ",
      ToString(psyker.num_known_powers), " psychic powers from the ",
      psyker.discipline, " discipline.">>

(* if not model_name in self.database.psykers: return                     *)
write_psyker_table(model_name) ==
    IF "psykers" \notin Database_attributes THEN <<raise("AttributeError")>>
    ELSE IF ~Has(psykers, model_name) THEN <<>>
    ELSE <<comment(<<"Psyker">>)>>
         \o Table_write(
                set_cell(add_row(add_column(Table, "Psyker")), "Psyker",
                         psyker_text(lookup_psyker(model_name, FALSE).val), ""))

-----------------------------------------------------------------------------
(* writers/squad.py, writers/detachment.py                                 *)

(* The summary table: the name row, the slot, models and cost row under   *)
(* the standard game, the notes.                                          *)
squad_summary(squad, num_models, cost) ==
    <<comment(<<squad.Name>>), start_tag("div"), comment(<<"Summary">>),
      start_tag("table"), start_tag("tr")>>
    \o after(IF is_kill_team THEN cost ELSE Return(0),
         <<oneliner("th",
               IF is_kill_team
               THEN <<squad.Name, " (", ToString(cost.val), ")">>
               ELSE <<squad.Name>>),
           start_tag("td"), oneliner("img", <<>>), end_tag, end_tag>>
         \o (IF is_kill_team THEN <<>>
             ELSE <<start_tag("tr"), oneliner("th", <<"Slot">>),
                    oneliner("td", <<squad.Slot>>),
                    oneliner("th", <<"Models">>),
                    oneliner("td", <<ToString(num_models)>>),
                    oneliner("th", <<"Cost">>)>>
                  \o after(cost,
                         <<oneliner("td", <<ToString(cost.val)>>), end_tag>>)))

(* notes: squad.get("Notes", "") and "(%s)" % demeanour                   *)
squad_notes(squad) ==
    LET notes == IF "Notes" \in DOMAIN squad THEN <<squad.Notes>> ELSE <<>>
        text == IF "Demeanour" \notin DOMAIN squad THEN notes
                ELSE notes \o (IF Len(notes) > 0 THEN <<" ">> ELSE <<>>)
                     \o <<"(", squad.Demeanour, ")">>
    IN IF Len(text) > 0 THEN <<content(text)>> ELSE <<>>

(* The experience gauge of a Kill Team card: twelve cells.               *)
experience_cell(xp, i) ==
    <<"experience_cell">>
    \o (IF i \in {3, 7, 12} THEN <<"_level">> ELSE <<>>)
    \o (IF xp >= i THEN <<"_checked">> ELSE <<>>)

experience_gauge(squad) ==
    LET xp == IF "Experience" \in DOMAIN squad THEN squad.Experience ELSE 0
    IN <<start_tag("table"), start_tag("tr"), start_tag("th class='title_nofill'"),
         content(<<"XP">>), end_tag, start_tag("td"), start_tag("div")>>
       \o [k \in 1..12 |-> oneliner("div", experience_cell(xp, k - 1))]
       \o <<end_tag, end_tag, end_tag, end_tag>>

(* for model in models: writer.write_psyker_table(outfile, model)         *)
squad_psyker_tables(models_list) ==
    chain([i \in 1..Len(models_list) |-> write_psyker_table(models_list[i])])

(* The quick reference tables of the squad, the psyker tables, the end of *)
(* the card.                                                              *)
squad_tables(squad, items, abilities_list) ==
    chain(<<table_commands("Models", write_models_table(items[2], squad)),
            IF is_kill_team THEN <<>>
            ELSE table_commands("Wargear", write_wargear_table(items[3], squad)),
            table_commands("Weapons", write_weapons_table(items[1], squad)),
            write_abilities_table(abilities_list),
            squad_psyker_tables(items[2]),
            (IF is_kill_team THEN <<oneliner("div", <<>>)>> ELSE <<>>)
            \o <<end_tag>> >>)

write_squad_body(squad, items, abilities_list) ==
    chain(<<squad_summary(squad, items[4], squad_points_cost(squad)),
            squad_notes(squad)
            \o <<end_tag>>
            \o (IF is_kill_team THEN experience_gauge(squad) ELSE <<>>),
            squad_tables(squad, items, abilities_list)>>)

write_squad_abilities(squad, items, abilities_list) ==
    after(abilities_list, write_squad_body(squad, items, abilities_list.val))

write_squad(squad) ==
    after(get_squad_items(squad),
          write_squad_abilities(squad, get_squad_items(squad).val,
                                list_squad_abilities(squad)))

detachment_squads(units) ==
    chain([i \in 1..Len(units) |-> write_squad(units[i])])

write_detachment(detachment) ==
    chain(<<IF is_kill_team THEN <<>>
            ELSE write_force_organisation_chart(detachment),
            <<start_tag("div")>>
            \o (IF is_kill_team THEN <<start_tag("div")>> ELSE <<>>),
            detachment_squads(detachment.Units),
            (IF is_kill_team THEN <<end_tag>> ELSE <<>>) \o <<end_tag>> >>)

-----------------------------------------------------------------------------
(* writers/armyheader.py, writers/killteamlist.py, writers/army.py         *)

(* One row of the detachment table of the header.                         *)
RECURSIVE header_detachment_rows(_, _)
header_detachment_row(formation, cost, detachments, i) ==
    IF IsNone(formation) THEN <<raise("AttributeError")>>
    ELSE <<content(<<ToString(formation.cp)>>)>>
         \o after(cost, <<content(<<ToString(cost.val)>>), end_tag>>
                        \o header_detachment_rows(detachments, i + 1))

header_detachment_rows(detachments, i) ==
    IF i > Len(detachments) THEN <<end_tag>>
    ELSE <<start_tag("tr"), content(<<detachments[i].Name>>),
           content(detachments[i].Type)>>
         \o header_detachment_row(lookup_formation(detachments[i].Type).val,
                                  detachment_points_cost(detachments[i]),
                                  detachments, i)

header_detachments(a) ==
    <<start_tag("table"), start_tag("tr"), content(<<"Detachment">>),
      content(<<"Type">>), content(<<"CP">>), content(<<"Cost">>), end_tag>>
    \o header_detachment_rows(a.Detachments, 1)

(* kt = army["Detachments"][0] if len(army["Detachments"]) > 0 else {}    *)
header_kill_team(a) ==
    LET kt == IF Len(a.Detachments) > 0 THEN a.Detachments[1] ELSE <<>>
    IN <<start_tag("table"), start_tag("tr"), content(<<"Background">>),
         content(<<"Quirk">>), end_tag, start_tag("tr"),
         content(<<IF "Background" \in DOMAIN kt THEN kt.Background ELSE "None">>),
         content(<<IF "Quirk" \in DOMAIN kt THEN kt.Quirk ELSE "None">>),
         end_tag, end_tag>>

header_totals(a, total, cp_total) ==
    <<start_tag("div"), start_tag("table"), content(<<a.Name>>),
      content(<<a.Warlord>>), content(<<ToString(a.Points)>>),
      content(<<ToString(total)>>), content(<<ToString(a.Points - total)>>),
      content(<<ToString(cp_total)>>), end_tag>>
    \o (IF ~is_kill_team THEN header_detachments(a) ELSE header_kill_team(a))
    \o <<end_tag>>

header_cp(a, total, cp_total) ==
    after(cp_total, header_totals(a, total.val, cp_total.val))

write_army_header(a) ==
    <<comment(<<a.Name>>)>>
    \o after(army_points_cost(a),
             header_cp(a, army_points_cost(a), army_cp_total(a)))

(* The Kill Team roster: one line per squad, which must have one model.   *)
RECURSIVE lookup_items(_, _)
lookup_items(names, i) ==
    IF i > Len(names) THEN Return(<<>>)
    ELSE IF ~Ok(lookup_item(names[i])) THEN lookup_item(names[i])
    ELSE lookup_items(names, i + 1)

kill_team_list_line(squad, items) ==
    IF Len(items[2]) # 1 THEN <<raise("AssertionError")>>
    ELSE after(lookup_item(items[2][1]),
             after(lookup_items(items[1] \o items[3], 1),
                 <<content(<<squad.Name, ": ">> \o items[2][1]
                           \o <<" with ">>
                           \o join(<<", ">>, items[1] \o items[3]))>>))

kill_team_list_lines(units) ==
    chain([i \in 1..Len(units) |->
              after(get_squad_items(units[i]),
                    kill_team_list_line(units[i], get_squad_items(units[i]).val))]
          \o << <<end_tag>> >>)

write_kill_team_list(a) ==
    IF ~is_kill_team THEN <<>>
    ELSE <<start_tag("table"), content(<<"Army List">>)>>
         \o kill_team_list_lines(army_units(a))

(* The stat tables of every model, wargear, weapon and ability of the     *)
(* army.                                                                  *)
army_abilities_table(r) ==
    after(r, write_abilities_table(r.val))

army_appendices(a) ==
    chain(<<<<comment(<<"Appendices">>)>> \o write_kill_team_list(a),
            table_commands("Models",
                write_models_table(list_army_items(a, models), None)),
            table_commands("Wargear",
                write_wargear_table(list_army_items(a, wargear), None)),
            table_commands("Weapons",
                write_weapons_table(list_army_items(a, weapons), None)),
            army_abilities_table(list_army_abilities(a))>>)

army_detachments(detachments) ==
    chain([i \in 1..Len(detachments) |-> write_detachment(detachments[i])])

army_units_section(a) ==
    chain(<<<<comment(<<"Army list">>), start_tag("div")>>,
            army_detachments(a.Detachments),
            <<end_tag>> >>)

in_sections(section, sections) ==
    Len(sections) = 0 \/ section \in Elems(sections)

write_army(a, sections) ==
    chain(<<<<start_tag("html"), start_tag("head"), content(<<"link">>),
              end_tag, start_tag("body")>>,
            IF in_sections("header", sections) THEN write_army_header(a)
            ELSE <<>>,
            IF in_sections("units", sections) THEN army_units_section(a)
            ELSE <<>>,
            IF in_sections("appendices", sections) THEN army_appendices(a)
            ELSE <<>>,
            <<end_tag, end_tag>> >>)

-----------------------------------------------------------------------------
(* generate.py: the legacy engine.  Its readers build the tables of       *)
(* GameData from the same csv files; the records are the classes local to *)
(* each reader.  A GameData is the record of its tables.                  *)

(* read_weapons: the Weapon of a row.  The abilities are set after the    *)
(* weapon was put in the table, on the same object.                       *)
generate_weapon(row, abil) ==
    [name |-> row.Name, cost |-> int(row.Cost),
     stats |-> [Name |-> row.Name, Cost |-> row.Cost,
                Range |-> row.Range, Type |-> row.Type,
                S |-> row.S, AP |-> row.AP, D |-> row.D,
                Abilities |-> abilities_str(join(<<", ">>, abil))],
     modes |-> <<>>, abilities |-> abil]

(* weapons[base_name].modes.append(weapon), after the dummy base weapon   *)
(* was made when the table had none.                                      *)
generate_append_mode(weapon, base_name, table) ==
    [table EXCEPT ![IndexOf(table, base_name)].modes = Append(@, weapon)]

generate_link_weapon(weapon, table) ==
    IF weapon_pattern(weapon.name) # {}
    THEN generate_append_mode(weapon, weapon_base_name(weapon.name),
             IF ~Has(table, weapon_base_name(weapon.name))
             THEN Put(table, [name |-> weapon_base_name(weapon.name),
                              cost |-> weapon.cost,
                              stats |-> [Name |-> weapon_base_name(weapon.name),
                                         Cost |-> ToString(weapon.cost)],
                              modes |-> <<>>, abilities |-> <<>>])
             ELSE table)
    ELSE Put(table, weapon)

RECURSIVE generate_read_weapons(_, _, _)
generate_read_weapons(rows, i, table) ==
    IF i > Len(rows) THEN Return(table)
    ELSE IF ~IsInt(rows[i].Cost) THEN Raise("ValueError")
    ELSE generate_read_weapons(rows, i + 1,
             generate_link_weapon(
                 generate_weapon(rows[i],
                     remove_empty(split_abilities(rows[i].Abilities))),
                 table))

(* read_wargear                                                            *)
RECURSIVE generate_read_wargear(_, _, _)
generate_read_wargear(rows, i, table) ==
    IF i > Len(rows) THEN Return(table)
    ELSE IF ~IsInt(rows[i].Cost) THEN Raise("ValueError")
    ELSE generate_read_wargear(rows, i + 1,
             Put(table, [name |-> rows[i].Name, cost |-> int(rows[i].Cost),
                         abilities |-> split_abilities(rows[i].Abilities)]))

(* read_models: the Model of a row.                                        *)
generate_model(row) ==
    [name |-> row.Name, cost |-> int(row.Cost),
     abilities |-> split_abilities(row.Abilities),
     damage_variants |-> <<>>,
     includes_wargear |->
         (row.IncludesWargear # "" /\ int(row.IncludesWargear) # 0)]

(* models[base_name].damage_variants.append((threshold, model)), or       *)
(* models[name] = model                                                   *)
generate_link_model(model, m, table) ==
    IF m = {} THEN Return(Put(table, model))
    ELSE IF ~Has(table, strip(SubSeq(model.name, 1, Last(m) - 1)))
    THEN Raise("KeyError")
    ELSE Return([table EXCEPT
             ![IndexOf(table, strip(SubSeq(model.name, 1, Last(m) - 1)))]
                 .damage_variants =
                 Append(@, <<int(model.name[Last(m) + 1]), model>>)])

RECURSIVE generate_read_models(_, _, _)
generate_read_model(r, rows, i) ==
    IF ~Ok(r) THEN r ELSE generate_read_models(rows, i + 1, r.val)

generate_read_models(rows, i, table) ==
    IF i > Len(rows) THEN Return(table)
    ELSE IF ~IsInt(rows[i].Cost) THEN Raise("ValueError")
    ELSE IF rows[i].IncludesWargear # "" /\ ~IsInt(rows[i].IncludesWargear)
    THEN Raise("ValueError")
    ELSE generate_read_model(
             generate_link_model(generate_model(rows[i]),
                                 model_pattern(rows[i].Name), table),
             rows, i)

(* read_formations: Formation(row) reads the CP and the five slots.       *)
generate_formation_slots(row) ==
    [k \in 1..Len(slot_names) |-> parse_slot(row[slot_names[k]])]

RECURSIVE generate_read_formations(_, _, _)
generate_read_formations(rows, i, table) ==
    IF i > Len(rows) THEN Return(table)
    ELSE IF ~IsInt(rows[i].CP) THEN Raise("ValueError")
    ELSE IF \E k \in 1..Len(slot_names) : ~Ok(generate_formation_slots(rows[i])[k])
    THEN Raise("ValueError")
    ELSE generate_read_formations(rows, i + 1,
             Put(table, [name |-> rows[i].Name, cp |-> int(rows[i].CP),
                         transports_ratio |-> rows[i].Transports]))

(* read_psykers: each row has three integers.                             *)
generate_read_psykers(rows) ==
    IF \E i \in 1..Len(rows) :
           ~IsInt(rows[i].PowersPerTurn) \/ ~IsInt(rows[i].DenyPerTurn)
           \/ ~IsInt(rows[i].NumKnownPowers)
    THEN Raise("ValueError")
    ELSE Return([i \in 1..Len(rows) |-> [name |-> rows[i].Name]])

(* GameData.__init__: the readers in the order weapons, wargear, models,  *)
(* formations, abilities, psykers; the first exception leaves it.  Then   *)
(* the costs table is updated with the weapons, the models, the wargear.  *)
GameData_tables(w, g, m, f, p) ==
    IF ~Ok(w) THEN w
    ELSE IF ~Ok(g) THEN g
    ELSE IF ~Ok(m) THEN m
    ELSE IF ~Ok(f) THEN f
    ELSE IF ~Ok(p) THEN p
    ELSE Return([weapons |-> w.val, wargear |-> g.val, models |-> m.val,
                 formations |-> f.val,
                 costs |-> update(update(update(<<>>, w.val), m.val), g.val)])

GameData_init ==
    GameData_tables(generate_read_weapons(csv.weapons, 1, <<>>),
                    generate_read_wargear(csv.wargear, 1, <<>>),
                    generate_read_models(csv.models, 1, <<>>),
                    generate_read_formations(csv.formations, 1, <<>>),
                    generate_read_psykers(csv.psykers))

GameData_lookup_item(self, item) ==
    IF Has(self.costs, item) THEN Return(Get(self.costs, item))
    ELSE Raise("SystemExit")

RECURSIVE GameData_squad_models_cost_loop(_, _, _, _)
GameData_squad_models_cost_item(self, r, items, i, total) ==
    IF ~Ok(r) THEN r
    ELSE GameData_squad_models_cost_loop(self, items, i + 1,
             total + r.val.cost * items[i][2])

GameData_squad_models_cost_loop(self, items, i, total) ==
    IF i > Len(items) THEN Return(total)
    ELSE IF Has(self.models, items[i][1])
    THEN GameData_squad_models_cost_item(
             self, GameData_lookup_item(self, items[i][1]), items, i, total)
    ELSE GameData_squad_models_cost_loop(self, items, i + 1, total)

GameData_squad_models_cost(self, squad) ==
    GameData_squad_models_cost_loop(self, squad.Items, 1, 0)

RECURSIVE GameData_squad_wargear_included_loop(_, _, _, _)
GameData_squad_wargear_included_item(self, r, items, i, include_wargear) ==
    IF ~Ok(r) THEN r
    ELSE IF "includes_wargear" \notin DOMAIN r.val THEN Raise("AttributeError")
    ELSE IF r.val.includes_wargear
    THEN GameData_squad_wargear_included_loop(self, items, i + 1, TRUE)
    ELSE IF include_wargear THEN Raise("AssertionError")
    ELSE GameData_squad_wargear_included_loop(self, items, i + 1,
                                              include_wargear)

GameData_squad_wargear_included_loop(self, items, i, include_wargear) ==
    IF i > Len(items) THEN Return(include_wargear)
    ELSE IF Has(self.models, items[i][1])
    THEN GameData_squad_wargear_included_item(
             self, GameData_lookup_item(self, items[i][1]), items, i,
             include_wargear)
    ELSE GameData_squad_wargear_included_loop(self, items, i + 1,
                                              include_wargear)

GameData_squad_wargear_included(self, squad) ==
    GameData_squad_wargear_included_loop(self, squad.Items, 1, FALSE)

RECURSIVE GameData_squad_wargear_cost_loop(_, _, _, _)
GameData_squad_wargear_cost_item(self, r, items, i, total) ==
    IF ~Ok(r) THEN r
    ELSE GameData_squad_wargear_cost_loop(self, items, i + 1,
             total + r.val.cost * items[i][2])

GameData_squad_wargear_cost_loop(self, items, i, total) ==
    IF i > Len(items) THEN Return(total)
    ELSE IF Has(self.weapons, items[i][1]) \/ Has(self.wargear, items[i][1])
    THEN GameData_squad_wargear_cost_item(
             self, GameData_lookup_item(self, items[i][1]), items, i, total)
    ELSE GameData_squad_wargear_cost_loop(self, items, i + 1, total)

GameData_squad_wargear_cost_included(self, squad, included) ==
    IF ~Ok(included) THEN included
    ELSE IF included.val THEN Return(0)
    ELSE GameData_squad_wargear_cost_loop(self, squad.Items, 1, 0)

GameData_squad_wargear_cost(self, squad) ==
    GameData_squad_wargear_cost_included(
        self, squad, GameData_squad_wargear_included(self, squad))

(* Variant: the wargear is left out of the cost of a squad.               *)
GameData_squad_points_cost_sum_models_only(m, w) ==
    IF ~Ok(m) THEN m
    ELSE IF ~Ok(w) THEN w
    ELSE Return(m.val)

GameData_squad_points_cost_sum(m, w) ==
    IF ~Ok(m) THEN m
    ELSE IF ~Ok(w) THEN w
    ELSE Return(m.val + w.val)

GameData_squad_points_cost(self, squad) ==
    GameData_squad_points_cost_sum(GameData_squad_models_cost(self, squad),
                                   GameData_squad_wargear_cost(self, squad))

RECURSIVE GameData_detachment_points_cost_loop(_, _, _, _)
GameData_detachment_points_cost_unit(self, r, units, i, total) ==
    IF ~Ok(r) THEN r
    ELSE GameData_detachment_points_cost_loop(self, units, i + 1, total + r.val)

GameData_detachment_points_cost_loop(self, units, i, total) ==
    IF i > Len(units) THEN Return(total)
    ELSE GameData_detachment_points_cost_unit(
             self, GameData_squad_points_cost(self, units[i]), units, i, total)

GameData_detachment_points_cost(self, detachment) ==
    GameData_detachment_points_cost_loop(self, detachment.Units, 1, 0)

RECURSIVE GameData_army_points_cost_loop(_, _, _, _)
GameData_army_points_cost_detachment(self, r, detachments, i, total) ==
    IF ~Ok(r) THEN r
    ELSE GameData_army_points_cost_loop(self, detachments, i + 1, total + r.val)

GameData_army_points_cost_loop(self, detachments, i, total) ==
    IF i > Len(detachments) THEN Return(total)
    ELSE GameData_army_points_cost_detachment(
             self, GameData_detachment_points_cost(self, detachments[i]),
             detachments, i, total)

GameData_army_points_cost(self, a) ==
    GameData_army_points_cost_loop(self, a.Detachments, 1, 0)

(* lookup_formation returns None for an unknown type, and None has no cp. *)
RECURSIVE GameData_army_cp_total_loop(_, _, _, _)
GameData_army_cp_total_loop(self, detachments, i, total) ==
    IF i > Len(detachments) THEN Return(total)
    ELSE IF ~Has(self.formations, detachments[i].Type)
    THEN Raise("AttributeError")
    ELSE GameData_army_cp_total_loop(self, detachments, i + 1,
             total + Get(self.formations, detachments[i].Type).cp)

GameData_army_cp_total(self, a) ==
    GameData_army_cp_total_loop(self, a.Detachments, 1, 3)

(* A method of the legacy engine, called on the GameData built from the   *)
(* csv files; there is nothing to call when its constructor raised.       *)
GameData_call(self, f, a) ==
    IF ~Ok(self) THEN self
    ELSE CASE f = "squad_models_cost" -> GameData_squad_models_cost(self.val, a)
           [] f = "squad_wargear_included" ->
                  GameData_squad_wargear_included(self.val, a)
           [] f = "squad_wargear_cost" -> GameData_squad_wargear_cost(self.val, a)
           [] f = "squad_points_cost" -> GameData_squad_points_cost(self.val, a)
           [] f = "detachment_points_cost" ->
                  GameData_detachment_points_cost(self.val, a)
           [] f = "army_points_cost" -> GameData_army_points_cost(self.val, a)
           [] f = "army_cp_total" -> GameData_army_cp_total(self.val, a)

-----------------------------------------------------------------------------
(* Inputs: the csv files of the data directory and the army list.         *)

SeqsUpTo(S, n) == UNION {[1..k -> S] : k \in 0..n}

WeaponRow(name, cost, abil) ==
    [Name |-> name, Cost |-> cost, Range |-> "24", Type |-> "Assault 1",
     S |-> "4", AP |-> "0", D |-> "1", Abilities |-> abil]

ModelRow(name, cost, includes, abil) ==
    [Name |-> name, Cost |-> cost, M |-> "6", WS |-> "3+", BS |-> "3+",
     S |-> "4", T |-> "4", W |-> "1", A |-> "1", Ld |-> "7", Sv |-> "3+",
     Abilities |-> abil, IncludesWargear |-> includes]

WargearRow(name, cost, abil) ==
    [Name |-> name, Cost |-> cost, Abilities |-> abil]

FormationRow(name, cp, transports) ==
    [Name |-> name, CP |-> cp, HQ |-> <<"1", "-", "2">>,
     Troops |-> <<"1", "-", "3">>, Elites |-> <<"0", "-", "2">>,
     Transports |-> transports]
    @@ ("Fast Attack" :> <<"0", "-", "2">>)
    @@ ("Heavy Support" :> <<"0", "-", "2">>)

(* The data directory the armies are costed against.                      *)
StandardCsv ==
    [weapons |-> <<WeaponRow(N.Flamer, "2",
                             N.Blast \o <<" ", "|", " ">> \o N.Stubborn),
                   WeaponRow(N.GunA, "1", N.Blast),
                   WeaponRow(N.GunB, "3", <<>>),
                   WeaponRow(N.Frag, "1", <<>>),
                   WeaponRow(N.Krak, "1", N.Blast)>>,
     wargear |-> <<WargearRow(N.Shield, "1", N.Stubborn),
                   WargearRow(N.Launcher, "1", N.AGL)>>,
     models |-> <<ModelRow(N.Marine, "2", "", N.Stubborn),
                  ModelRow(N.Robot, "3", "1", <<>>),
                  ModelRow(N.Robot5W, "3", "1", <<>>)>>,
     formations |-> <<FormationRow(N.Patrol, "1", "1:1"),
                      FormationRow(N.Battalion, "3", "1:1")>>,
     abilities |-> <<[Name |-> N.Stubborn, Description |-> "Ignores morale."],
                     [Name |-> N.Blast, Description |-> "Hits many."]>>,
     psykers |-> <<[Name |-> N.Librarian, PowersPerTurn |-> "2",
                    DenyPerTurn |-> "1", NumKnownPowers |-> "2",
                    Discipline |-> "Librarius"],
                   [Name |-> N.Marine, PowersPerTurn |-> "1",
                    DenyPerTurn |-> "1", NumKnownPowers |-> "2",
                    Discipline |-> "Librarius"]>>,
     demeanours |-> <<[Name |-> <<"Grim">>]>>,
     quirks |-> <<[Name |-> <<"Lucky">>]>>,
     backgrounds |-> <<[Name |-> <<"Veterans">>]>>]

(* Data directories whose weapons file is any short sequence of rows      *)
(* named Gun, Gun [a] or Gun [b].                                         *)
CostCells == {"1", "2"}

WeaponRows ==
    {WeaponRow(n, c, <<>>) : n \in {N.Gun, N.GunA}, c \in CostCells}
    \cup {WeaponRow(N.GunB, "3", <<>>)}

VariedCsv ==
    {[StandardCsv EXCEPT !.weapons = rows] : rows \in SeqsUpTo(WeaponRows, MaxRows)}

(* Data directories whose models file is any short sequence of rows       *)
(* named Robot, Robot (5W) or Robot (3W).                                 *)
ModelRows ==
    {ModelRow(N.Robot, c, "", <<>>) : c \in CostCells}
    \cup {ModelRow(N.Robot5W, "2", "", <<>>), ModelRow(N.Robot3W, "2", "", <<>>)}

VariedModelsCsv ==
    {[StandardCsv EXCEPT !.models = rows] : rows \in SeqsUpTo(ModelRows, MaxRows)}

Squad(items) == [Name |-> "Squad", Slot |-> "Troops", Items |-> items]
Detachment(type, units) == [Name |-> "Detachment", Type |-> type, Units |-> units]
Army(detachments) ==
    [Name |-> "Army", Points |-> 10, Warlord |-> "Warlord",
     Detachments |-> detachments]

(* Item mappings: distinct names, any order, quantities of one and of     *)
(* MaxQty.                                                                *)
ItemNames == {N.Marine, N.Robot, N.Flamer, N.Shield, N.Plasma}

ItemMaps ==
    {items \in SeqsUpTo(ItemNames \X {1, MaxQty}, MaxItems) :
        \A i, j \in 1..Len(items) : items[i][1] = items[j][1] => i = j}

SingleSquadArmies ==
    {Army(<<Detachment(N.Patrol, <<Squad(items)>>)>>) : items \in ItemMaps}

(* Armies of several detachments.  In the first family there are up to   *)
(* two full detachments of squads under one formation type; in the second *)
(* the formation types vary (Brigade is not in the formations file) over  *)
(* detachments of at most one squad, which may be a squad whose cost      *)
(* fails.                                                                 *)
SmallSquads ==
    {Squad(<<<<N.Marine, 2>>, <<N.Flamer, 1>>>>),
     Squad(<<<<N.Robot, 1>>, <<N.Shield, 1>>>>)}

MixedSquad == Squad(<<<<N.Robot, 1>>, <<N.Marine, 1>>>>)

UnitDetachments ==
    {Detachment(N.Patrol, units) : units \in [1..MaxUnits -> SmallSquads]}

TypeDetachments ==
    {Detachment(type, units) :
        type \in {N.Patrol, N.Battalion, N.Brigade},
        units \in {<<>>, <<Squad(<<<<N.Marine, 2>>, <<N.Flamer, 1>>>>)>>,
                   <<MixedSquad>>}}

UnitArmies ==
    {Army(detachments) : detachments \in SeqsUpTo(UnitDetachments, 2)}

TypeArmies ==
    {Army(detachments) : detachments \in SeqsUpTo(TypeDetachments, MaxDetachments)}

(* The Kill Team rosters among them: the detachments of a roster are of   *)
(* one formation type.                                                    *)
KillTeamTypeArmies ==
    {a \in TypeArmies :
        \A i, j \in 1..Len(a.Detachments) :
            a.Detachments[i].Type = a.Detachments[j].Type}

GunArmies ==
    {Army(<<Detachment(N.Patrol, <<Squad(items)>>)>>) :
        items \in {<<<<N.Gun, 1>>>>,
                   <<<<N.Marine, 1>>, <<N.Gun, 2>>>>}}

(* Kill Team rosters: a squad may declare a Specialist and an Experience *)
(* score, or carry grenades with or without the launcher.                 *)
XpValues == {0, 2, 3, 6, 7, 11, 12, 13}

KillTeamSquads ==
    LET squad == Squad(<<<<N.Marine, 1>>, <<N.Flamer, 1>>>>)
    IN {squad, squad @@ [Specialist |-> N.Veteran]}
       \cup {squad @@ [Experience |-> x] : x \in XpValues}
       \cup {squad @@ [Specialist |-> N.Veteran, Experience |-> x] : x \in XpValues}
       \cup {squad @@ [Experience |-> 7, Level |-> 1]}
       \cup {Squad(items) :
                items \in {<<<<N.Frag, 2>>, <<N.Launcher, 1>>>>,
                           <<<<N.Launcher, 1>>, <<N.Krak, 1>>, <<N.Flamer, 1>>>>,
                           <<<<N.Frag, 1>>, <<N.Shield, 1>>>>,
                           <<<<N.Frag, 1>>, <<N.Launcher, 1>>, <<N.Plasma, 1>>>>}}

KillTeamArmies ==
    {Army(<<Detachment(N.Patrol, <<squad>>)>>) : squad \in KillTeamSquads}

(* Squads that carry a weapon with two modes and a weapon with one, led   *)
(* by a model that includes its wargear or by one that does not.          *)
WeaponArmies ==
    {Army(<<Detachment(N.Patrol, <<Squad(items)>>)>>) :
        items \in {<<<<N.Marine, 1>>, <<N.Gun, 2>>, <<N.Flamer, 1>>>>,
                   <<<<N.Robot, 1>>, <<N.Gun, 2>>, <<N.Flamer, 1>>>>}}

(* Data directories whose one weapon row has an Abilities cell with      *)
(* empty segments: "", "|", " | Blast", "Blast | Stubborn",               *)
(* "Blast||Stubborn|".                                                    *)
AbilityCells ==
    {<<>>, <<"|">>, <<" ", "|", " ">> \o N.Blast,
     N.Blast \o <<" ", "|", " ">> \o N.Stubborn,
     N.Blast \o <<"|", "|">> \o N.Stubborn \o <<"|">>}

AbilityCsv ==
    {[StandardCsv EXCEPT !.weapons = <<WeaponRow(N.Flamer, "2", cell)>>] :
        cell \in AbilityCells}

AbilityArmies ==
    {Army(<<Detachment(N.Patrol,
                       <<Squad(<<<<N.Marine, 1>>, <<N.Flamer, 1>>>>)>>)>>)}

(* Data directories whose Patrol formation has one of several transport  *)
(* ratios, and detachments whose squads fill various slots.               *)
ChartCsv ==
    {[StandardCsv EXCEPT !.formations = <<FormationRow(N.Patrol, "1", r)>>] :
        r \in {"1:1", "1:2", "2:1"}}

SlotSquads ==
    {[Squad(<<<<N.Marine, 1>>, <<N.Flamer, 1>>>>) EXCEPT !.Slot = slot] :
        slot \in {"HQ", "Troops", "Transports", "Lord of War"}}

ChartArmies ==
    {Army(<<Detachment(N.Patrol, units)>>) :
        units \in SeqsUpTo(SlotSquads, MaxUnits)}

(* Data directories with a row whose name has text after the bracketed   *)
(* or parenthesised part: "Gun [a] Mk2", "Robot (5W) Alpha".              *)
PatternCsv ==
    {[StandardCsv EXCEPT
         !.weapons = <<WeaponRow(N.Flamer, "2", <<>>),
                       WeaponRow(N.GunA \o tail, "1", <<>>)>>,
         !.models = <<ModelRow(N.Robot, "2", "", <<>>),
                      ModelRow(N.Robot5W \o tail, "2", "", <<>>)>>] :
        tail \in {<<>>, <<" ", "Mk2">>}}

(* Data directories in which a name is a key of two tables: a wargear    *)
(* row named as a model or as a weapon.                                   *)
CollisionCsv ==
    {[StandardCsv EXCEPT !.wargear = Append(@, WargearRow(name, "1", <<>>))] :
        name \in {N.Marine, N.Flamer}}

RobotArmies ==
    {Army(<<Detachment(N.Patrol, <<Squad(<<<<N.Robot, 2>>>>)>>)>>)}

Games == {"40k", "Kill Team"}

Inputs ==
    ({StandardCsv} \X (SingleSquadArmies \cup UnitArmies \cup WeaponArmies)
         \X {"40k"})
    \cup ({StandardCsv} \X TypeArmies \X {"40k"})
    \cup ({StandardCsv} \X KillTeamTypeArmies \X {"Kill Team"})
    \cup (VariedCsv \X GunArmies \X {"40k"})
    \cup (VariedModelsCsv \X RobotArmies \X {"40k"})
    \cup ({StandardCsv} \X KillTeamArmies \X Games)
    \cup (AbilityCsv \X AbilityArmies \X {"40k"})
    \cup (ChartCsv \X ChartArmies \X {"40k"})
    \cup (PatternCsv \X RobotArmies \X {"40k"})
    \cup (CollisionCsv \X AbilityArmies \X {"40k"})

-----------------------------------------------------------------------------
(* The state machine.  Database.__init__ reads the tables one after the   *)
(* other, then the resolution methods are called on the army and on its   *)
(* detachments and squads.                                                *)

Fns == {"squad_models_cost", "squad_wargear_included", "squad_wargear_cost",
        "squad_points_cost", "detachment_points_cost", "army_points_cost",
        "get_squad_items", "army_cp_total", "lookup_item",
        "lookup_formation", "lookup_ability", "get_squad_level",
        "list_squad_abilities", "list_army_abilities", "lookup_buff",
        "write_weapons_table", "write_models_table", "lookup_psyker",
        "write_force_organisation_chart", "write_squad", "write_army",
        "GameData.squad_models_cost", "GameData.squad_wargear_included",
        "GameData.squad_wargear_cost", "GameData.squad_points_cost",
        "GameData.detachment_points_cost", "GameData.army_points_cost",
        "GameData.army_cp_total"}

NoCalls == [f \in Fns |-> NotCalled]

Init ==
    /\ \E in \in Inputs : csv = in[1] /\ army = in[2] /\ game = in[3]
    /\ pc = "weapons"
    /\ weapons = <<>> /\ wargear = <<>> /\ models = <<>>
    /\ formations = <<>> /\ abilities = <<>> /\ psykers = <<>>
    /\ demeanours = <<>> /\ quirks = <<>> /\ backgrounds = <<>>
    /\ costs = <<>>
    /\ op = "" /\ arg = <<>> /\ ret = NoCalls
    /\ budget = 1

(* One read_table call of Database.__init__: the table is stored and the  *)
(* constructor goes on to the next one, or the exception leaves it.       *)
ReadTable(stage, rows, create_record, next) ==
    /\ pc = stage
    /\ LET r == read_table(rows, create_record)
       IN IF Ok(r)
          THEN /\ pc' = next
               /\ weapons' = IF stage = "weapons" THEN r.val ELSE weapons
               /\ wargear' = IF stage = "wargear" THEN r.val ELSE wargear
               /\ models' = IF stage = "models" THEN r.val ELSE models
               /\ formations' = IF stage = "formations" THEN r.val ELSE formations
               /\ abilities' = IF stage = "abilities" THEN r.val ELSE abilities
               /\ psykers' = IF stage = "psykers" THEN r.val ELSE psykers
          ELSE /\ pc' = r.exc
               /\ UNCHANGED <<weapons, wargear, models, formations, abilities,
                              psykers>>
    /\ UNCHANGED <<game, csv, army, demeanours, quirks, backgrounds, costs,
                   op, arg, ret, budget>>

read_weapons == ReadTable("weapons", csv.weapons, "Weapon", "wargear")
read_wargear == ReadTable("wargear", csv.wargear, "Wargear", "models")
read_models == ReadTable("models", csv.models, "Model", "formations")
read_formations == ReadTable("formations", csv.formations, "Formation", "abilities")
read_abilities == ReadTable("abilities", csv.abilities, "Ability", "psykers")
read_psykers == ReadTable("psykers", csv.psykers, "Psyker", "kill_team")

(* The end of Database.__init__: the Kill Team tables, when the game is   *)
(* Kill Team, and the merged costs table.                                 *)
Database_init ==
    /\ pc = "kill_team"
    /\ LET d == read_table(csv.demeanours, "Demeanour")
           q == read_table(csv.quirks, "Quirk")
           b == read_table(csv.backgrounds, "Background")
       IN /\ demeanours' = IF is_kill_team THEN d.val ELSE <<>>
          /\ quirks' = IF is_kill_team THEN q.val ELSE <<>>
          /\ backgrounds' = IF is_kill_team THEN b.val ELSE <<>>
    /\ costs' = update(update(update(<<>>, weapons), models), wargear)
    /\ pc' = "ready"
    /\ UNCHANGED <<game, csv, army, weapons, wargear, models, formations,
                   abilities, psykers, op, arg, ret, budget>>

(* Variant: a call empties the merged costs table.                       *)
Call_emptying_costs(f, a, r) ==
    /\ pc = "ready"
    /\ budget > 0
    /\ budget' = budget - 1
    /\ op' = f
    /\ arg' = a
    /\ ret' = r
    /\ costs' = <<>>
    /\ UNCHANGED <<game, csv, army, pc, weapons, wargear, models, formations,
                   abilities, psykers, demeanours, quirks, backgrounds>>

(* A call of a resolution method: the tables and the army are only read,  *)
(* so what a call returns does not depend on the calls made before it.    *)
(* budget is the number of calls the caller still makes on the database   *)
(* it built.                                                              *)
Call(f, a, r) ==
    /\ pc = "ready"
    /\ budget > 0
    /\ budget' = budget - 1
    /\ op' = f
    /\ arg' = a
    /\ ret' = r
    /\ UNCHANGED <<game, csv, army, pc, tables>>

ArmySquads == UNION {Elems(d.Units) : d \in Elems(army.Detachments)}

call_squad_models_cost ==
    \E squad \in ArmySquads :
        Call("squad_models_cost", squad,
             [NoCalls EXCEPT !["squad_models_cost"] = squad_models_cost(squad)])

call_squad_wargear_included ==
    \E squad \in ArmySquads :
        Call("squad_wargear_included", squad,
             [NoCalls EXCEPT
                 !["squad_wargear_included"] = squad_wargear_included(squad)])

call_squad_wargear_cost ==
    \E squad \in ArmySquads :
        Call("squad_wargear_cost", squad,
             [NoCalls EXCEPT
                 !["squad_wargear_included"] = squad_wargear_included(squad),
                 !["squad_wargear_cost"] = squad_wargear_cost(squad)])

(* squad_points_cost calls squad_models_cost, then squad_wargear_cost.    *)
call_squad_points_cost ==
    \E squad \in ArmySquads :
        LET m == squad_models_cost(squad)
        IN Call("squad_points_cost", squad,
                [NoCalls EXCEPT
                    !["squad_models_cost"] = m,
                    !["squad_wargear_included"] =
                        IF Ok(m) THEN squad_wargear_included(squad) ELSE NotCalled,
                    !["squad_wargear_cost"] =
                        IF Ok(m) THEN squad_wargear_cost(squad) ELSE NotCalled,
                    !["squad_points_cost"] = squad_points_cost(squad)])

call_get_squad_items ==
    \E squad \in ArmySquads :
        Call("get_squad_items", squad,
             [NoCalls EXCEPT !["get_squad_items"] = get_squad_items(squad)])

call_detachment_points_cost ==
    \E detachment \in Elems(army.Detachments) :
        Call("detachment_points_cost", detachment,
             [NoCalls EXCEPT
                 !["detachment_points_cost"] = detachment_points_cost(detachment)])

call_army_points_cost ==
    Call("army_points_cost", army,
         [NoCalls EXCEPT !["army_points_cost"] = army_points_cost(army)])

call_army_cp_total ==
    Call("army_cp_total", army,
         [NoCalls EXCEPT !["army_cp_total"] = army_cp_total(army)])

(* lookup_item is called with the item names of the squads and, by hand,  *)
(* with the names of the rows of the models file.                         *)
LookupNames ==
    UNION {{squad.Items[i][1] : i \in 1..Len(squad.Items)} : squad \in ArmySquads}
    \cup {csv.models[i].Name : i \in 1..Len(csv.models)}

call_lookup_item ==
    \E item \in LookupNames :
        Call("lookup_item", item,
             [NoCalls EXCEPT !["lookup_item"] = lookup_item(item)])

call_get_squad_level ==
    \E squad \in ArmySquads :
        Call("get_squad_level", squad,
             [NoCalls EXCEPT
                 !["get_squad_level"] = Return(get_squad_level(squad))])

(* list_squad_abilities calls get_squad_level for a Kill Team specialist. *)
call_list_squad_abilities ==
    \E squad \in ArmySquads :
        Call("list_squad_abilities", squad,
             [NoCalls EXCEPT
                 !["list_squad_abilities"] = list_squad_abilities(squad)])

call_list_army_abilities ==
    Call("list_army_abilities", army,
         [NoCalls EXCEPT !["list_army_abilities"] = list_army_abilities(army)])

(* lookup_buff as the weapons table writer calls it: for a squad and a    *)
(* mode of one of its weapons, or for no squad and a mode of a weapon of  *)
(* the army.                                                              *)
SquadWeaponModes(squad) ==
    UNION {Elems(get_modes(Get(weapons, squad.Items[i][1]))) :
              i \in {k \in 1..Len(squad.Items) : Has(weapons, squad.Items[k][1])}}

call_lookup_buff ==
    \E squad \in ArmySquads : \E s \in {squad, None} :
        \E stat_name \in {"Range", "Type"} : \E item \in SquadWeaponModes(squad) :
            Call("lookup_buff", <<s, stat_name, item>>,
                 [NoCalls EXCEPT
                     !["list_squad_abilities"] =
                         IF ~IsNone(s) /\ is_kill_team
                         THEN list_squad_abilities(s) ELSE NotCalled,
                     !["lookup_buff"] = lookup_buff(s, stat_name, item)])

(* SquadWriter.write_squad passes the weapons and the models that         *)
(* get_squad_items found, ArmyWriter.write_army those of the whole army   *)
(* and no squad.                                                          *)
call_write_weapons_table ==
    \E squad \in ArmySquads :
        Call("write_weapons_table", <<get_squad_items(squad).val[1], squad>>,
             [NoCalls EXCEPT
                 !["squad_wargear_included"] =
                     IF Len(get_squad_items(squad).val[1]) = 0 THEN NotCalled
                     ELSE squad_wargear_included(squad),
                 !["write_weapons_table"] =
                     write_weapons_table(get_squad_items(squad).val[1], squad)])

call_write_army_weapons_table ==
    Call("write_weapons_table", <<list_army_items(army, weapons), None>>,
         [NoCalls EXCEPT
             !["write_weapons_table"] =
                 write_weapons_table(list_army_items(army, weapons), None)])

call_write_models_table ==
    \E squad \in ArmySquads :
        Call("write_models_table", <<get_squad_items(squad).val[2], squad>>,
             [NoCalls EXCEPT
                 !["write_models_table"] =
                     write_models_table(get_squad_items(squad).val[2], squad)])

call_write_army_models_table ==
    Call("write_models_table", <<list_army_items(army, models), None>>,
         [NoCalls EXCEPT
             !["write_models_table"] =
                 write_models_table(list_army_items(army, models), None)])

(* lookup_psyker is called with the names of the squads' items. *)
call_lookup_psyker ==
    \E model_name \in UNION {Elems(get_squad_items(squad).val[2])
                                 \cup {squad.Items[1][1]} :
                             squad \in {sq \in ArmySquads : sq.Items # <<>>}} :
      \E quiet \in BOOLEAN :
        Call("lookup_psyker", <<model_name, quiet>>,
             [NoCalls EXCEPT
                 !["lookup_psyker"] = lookup_psyker(model_name, quiet)])

(* DetachmentWriter.write_detachment writes the chart of a detachment     *)
(* under the standard game.                                               *)
call_write_force_organisation_chart ==
    \E detachment \in Elems(army.Detachments) :
        /\ ~is_kill_team
        /\ Call("write_force_organisation_chart", detachment,
                [NoCalls EXCEPT
                    !["write_force_organisation_chart"] =
                        run(Outfile, write_force_organisation_chart(detachment), 1)])

(* DetachmentWriter.write_detachment writes each squad of a detachment    *)
(* on an Outfile.                                                         *)
call_write_squad ==
    \E squad \in ArmySquads :
        Call("write_squad", squad,
             [NoCalls EXCEPT
                 !["write_squad"] = run(Outfile, write_squad(squad), 1)])

(* write_army is called with no sections, which writes them all, or with  *)
(* a list of section names.                                               *)
Sections == {<<>>, <<"units">>, <<"header", "appendices">>}

call_write_army ==
    \E sections \in Sections :
        Call("write_army", <<army, sections>>,
             [NoCalls EXCEPT
                 !["write_army"] = run(Outfile, write_army(army, sections), 1)])

(* The cost methods of the legacy engine, called on the GameData that     *)
(* generate.py builds from the same files.                                *)
call_GameData_squad_models_cost ==
    \E squad \in ArmySquads :
        Call("GameData.squad_models_cost", squad,
             [NoCalls EXCEPT
                 !["GameData.squad_models_cost"] =
                     GameData_call(GameData_init, "squad_models_cost", squad)])

call_GameData_squad_wargear_included ==
    \E squad \in ArmySquads :
        Call("GameData.squad_wargear_included", squad,
             [NoCalls EXCEPT
                 !["GameData.squad_wargear_included"] =
                     GameData_call(GameData_init, "squad_wargear_included", squad)])

call_GameData_squad_wargear_cost ==
    \E squad \in ArmySquads :
        Call("GameData.squad_wargear_cost", squad,
             [NoCalls EXCEPT
                 !["GameData.squad_wargear_cost"] =
                     GameData_call(GameData_init, "squad_wargear_cost", squad)])

call_GameData_squad_points_cost ==
    \E squad \in ArmySquads :
        Call("GameData.squad_points_cost", squad,
             [NoCalls EXCEPT
                 !["GameData.squad_points_cost"] =
                     GameData_call(GameData_init, "squad_points_cost", squad)])

call_GameData_detachment_points_cost ==
    \E detachment \in Elems(army.Detachments) :
        Call("GameData.detachment_points_cost", detachment,
             [NoCalls EXCEPT
                 !["GameData.detachment_points_cost"] =
                     GameData_call(GameData_init, "detachment_points_cost",
                                   detachment)])

call_GameData_army_points_cost ==
    Call("GameData.army_points_cost", army,
         [NoCalls EXCEPT
             !["GameData.army_points_cost"] =
                 GameData_call(GameData_init, "army_points_cost", army)])

call_GameData_army_cp_total ==
    Call("GameData.army_cp_total", army,
         [NoCalls EXCEPT
             !["GameData.army_cp_total"] =
                 GameData_call(GameData_init, "army_cp_total", army)])

call_lookup_formation ==
    \E detachment \in Elems(army.Detachments) :
        Call("lookup_formation", detachment.Type,
             [NoCalls EXCEPT
                 !["lookup_formation"] = lookup_formation(detachment.Type)])

call_lookup_ability ==
    \E ability \in {N.Stubborn, N.Fearless} :
        Call("lookup_ability", ability,
             [NoCalls EXCEPT !["lookup_ability"] = lookup_ability(ability)])

Next ==
    \/ read_weapons
    \/ read_wargear
    \/ read_models
    \/ read_formations
    \/ read_abilities
    \/ read_psykers
    \/ Database_init
    \/ call_squad_models_cost
    \/ call_squad_wargear_included
    \/ call_squad_wargear_cost
    \/ call_squad_points_cost
    \/ call_get_squad_items
    \/ call_detachment_points_cost
    \/ call_army_points_cost
    \/ call_army_cp_total
    \/ call_lookup_item
    \/ call_lookup_formation
    \/ call_get_squad_level
    \/ call_list_squad_abilities
    \/ call_list_army_abilities
    \/ call_lookup_buff
    \/ call_write_weapons_table
    \/ call_write_army_weapons_table
    \/ call_write_models_table
    \/ call_write_army_models_table
    \/ call_lookup_ability
    \/ call_lookup_psyker
    \/ call_write_force_organisation_chart
    \/ call_write_squad
    \/ call_write_army
    \/ call_GameData_squad_models_cost
    \/ call_GameData_squad_wargear_included
    \/ call_GameData_squad_wargear_cost
    \/ call_GameData_squad_points_cost
    \/ call_GameData_detachment_points_cost
    \/ call_GameData_army_points_cost
    \/ call_GameData_army_cp_total

Spec == Init /\ [][Next]_vars

(* The same program with a caller that makes MaxCalls calls, one after    *)
(* the other, on the database of a small roster.                          *)
RepeatInputs == {StandardCsv} \X (WeaponArmies \cup KillTeamArmies) \X Games

InitRepeat ==
    /\ \E in \in RepeatInputs : csv = in[1] /\ army = in[2] /\ game = in[3]
    /\ pc = "weapons"
    /\ weapons = <<>> /\ wargear = <<>> /\ models = <<>>
    /\ formations = <<>> /\ abilities = <<>> /\ psykers = <<>>
    /\ demeanours = <<>> /\ quirks = <<>> /\ backgrounds = <<>>
    /\ costs = <<>>
    /\ op = "" /\ arg = <<>> /\ ret = NoCalls
    /\ budget = MaxCalls

SpecRepeat == InitRepeat /\ [][Next]_vars

-----------------------------------------------------------------------------
(* Vocabulary of the properties.                                          *)

Ready == pc = "ready"
WeaponsBuilt == pc \in {"wargear", "models", "formations", "abilities",
                        "psykers", "kill_team", "ready"}

SameResult(a, b) == a.exc = b.exc /\ (a.exc = "" => a.val = b.val)

RECURSIVE SetSum(_, _)
SetSum(f, S) ==
    IF S = {} THEN 0
    ELSE LET x == CHOOSE y \in S : TRUE IN f[x] + SetSum(f, S \ {x})

(* The sum of a sequence of results: the first failure, if any.           *)
SumResults(rs) ==
    IF \E i \in 1..Len(rs) : ~Ok(rs[i])
    THEN rs[CHOOSE i \in 1..Len(rs) :
                ~Ok(rs[i]) /\ \A j \in 1..(i - 1) : Ok(rs[j])]
    ELSE Return(SetSum([i \in 1..Len(rs) |-> rs[i].val], 1..Len(rs)))

(* The squads an operation's argument covers.                             *)
SquadsOf(f, a) ==
    IF f = "army_points_cost"
    THEN UNION {Elems(d.Units) : d \in Elems(a.Detachments)}
    ELSE IF f = "detachment_points_cost" THEN Elems(a.Units)
    ELSE {a}

ItemsOf(squad) == {squad.Items[i][1] : i \in 1..Len(squad.Items)}
ModelItems(squad) == {n \in ItemsOf(squad) : Has(models, n)}
KindsOf(n) ==
    {k \in {"weapon", "model", "wargear"} :
        \/ k = "weapon" /\ Has(weapons, n)
        \/ k = "model" /\ Has(models, n)
        \/ k = "wargear" /\ Has(wargear, n)}
OneKindEach(squad) == \A n \in ItemsOf(squad) : Cardinality(KindsOf(n)) = 1
AnyIncludesWargear(squad) ==
    \E n \in ModelItems(squad) : Get(models, n).includes_wargear

CostOps == {"squad_models_cost", "squad_wargear_cost", "squad_points_cost",
            "detachment_points_cost", "army_points_cost"}

(* C1: a squad with two model items, one including its wargear and one    *)
(* not, makes squad_wargear_included, squad_wargear_cost and              *)
(* squad_points_cost fail with the consistency error, whatever the order  *)
(* of the two items in the mapping.                                       *)
MixedTwoModels(squad) ==
    /\ Cardinality(ModelItems(squad)) = 2
    /\ \E m, n \in ModelItems(squad) :
           Get(models, m).includes_wargear /\ ~Get(models, n).includes_wargear

C1_MixedSquadFails ==
    (/\ Ready
     /\ op \in {"squad_wargear_included", "squad_wargear_cost",
                "squad_points_cost"}
     /\ OneKindEach(arg)
     /\ MixedTwoModels(arg))
    => ret[op].exc = "AssertionError"

(* C2: a squad item that is in none of the weapons, models and wargear    *)
(* tables makes every cost operation covering the squad, and              *)
(* get_squad_items, end in the fatal lookup error.                        *)
HasUnknownItem(squad) == \E n \in ItemsOf(squad) : KindsOf(n) = {}

C2_UnknownItemIsFatal ==
    (/\ Ready
     /\ op \in CostOps \cup {"get_squad_items"}
     /\ \E squad \in SquadsOf(op, arg) : HasUnknownItem(squad))
    => ret[op].exc = "SystemExit"

(* C3: when squad_points_cost returns, its value is the value returned by *)
(* squad_models_cost plus the value returned by squad_wargear_cost, and   *)
(* squad_wargear_cost returns 0 whenever squad_wargear_included returned  *)
(* true.                                                                  *)
C3_SquadCostIsModelsPlusWargear ==
    /\ (Ready /\ op = "squad_points_cost" /\ Ok(ret["squad_points_cost"]))
       => /\ Ok(ret["squad_models_cost"]) /\ Ok(ret["squad_wargear_cost"])
          /\ ret["squad_points_cost"].val =
                ret["squad_models_cost"].val + ret["squad_wargear_cost"].val
    /\ (/\ Ready
        /\ op \in {"squad_points_cost", "squad_wargear_cost"}
        /\ Ok(ret["squad_wargear_included"])
        /\ ret["squad_wargear_included"].val)
       => /\ Ok(ret["squad_wargear_cost"])
          /\ ret["squad_wargear_cost"].val = 0

C3_Witness ==
    /\ Ready /\ op = "squad_points_cost"
    /\ Ok(ret["squad_points_cost"])
    /\ ret["squad_wargear_included"].val
    /\ ret["squad_points_cost"].val > 0
    /\ \E n \in ItemsOf(arg) : Has(weapons, n) \/ Has(wargear, n)

(* C4 needs the sums written out over the item mapping.                   *)
ModelsSum(squad) ==
    SetSum([i \in 1..Len(squad.Items) |->
               IF Has(models, squad.Items[i][1])
               THEN Get(models, squad.Items[i][1]).cost * squad.Items[i][2]
               ELSE 0],
           1..Len(squad.Items))

GearSum(squad) ==
    SetSum([i \in 1..Len(squad.Items) |->
               IF Has(weapons, squad.Items[i][1])
               THEN Get(weapons, squad.Items[i][1]).cost * squad.Items[i][2]
               ELSE IF Has(wargear, squad.Items[i][1])
               THEN Get(wargear, squad.Items[i][1]).cost * squad.Items[i][2]
               ELSE 0],
           1..Len(squad.Items))

C4_ModelsCost ==
    (Ready /\ op = "squad_models_cost" /\ OneKindEach(arg))
    => SameResult(ret[op], Return(ModelsSum(arg)))

C4_WargearCost ==
    (/\ Ready /\ op = "squad_wargear_cost" /\ OneKindEach(arg)
     /\ Ok(ret["squad_wargear_included"])
     /\ ~ret["squad_wargear_included"].val)
    => SameResult(ret[op], Return(GearSum(arg)))

(* C4 as claimed: for a squad whose item names are each in exactly one    *)
(* table, squad_models_cost is the sum of cost x quantity over the model  *)
(* items, squad_wargear_included is true iff some model item includes     *)
(* its wargear, and when it is false squad_wargear_cost is the sum of     *)
(* cost x quantity over the weapon and wargear items.                     *)
C4_Original ==
    /\ C4_ModelsCost
    /\ C4_WargearCost
    /\ (Ready /\ op = "squad_wargear_included" /\ OneKindEach(arg))
       => ((Ok(ret[op]) /\ ret[op].val) <=> AnyIncludesWargear(arg))

(* C4 as amended: the same, with the equivalence for                      *)
(* squad_wargear_included holding whenever squad_wargear_included         *)
(* returns a value (it raises on a model that does not include its        *)
(* wargear after one that does).                                          *)
C4_SquadCostSums ==
    /\ C4_ModelsCost
    /\ C4_WargearCost
    /\ (/\ Ready /\ op = "squad_wargear_included" /\ OneKindEach(arg)
        /\ Ok(ret[op]))
       => (ret[op].val <=> AnyIncludesWargear(arg))

C4_Witness ==
    /\ Ready /\ op = "squad_wargear_cost" /\ OneKindEach(arg)
    /\ ModelItems(arg) = {}
    /\ Ok(ret["squad_wargear_included"])
    /\ ~ret["squad_wargear_included"].val
    /\ \E n \in ItemsOf(arg) : Has(weapons, n)
    /\ \E n \in ItemsOf(arg) : Has(wargear, n)
    /\ \E i \in 1..Len(arg.Items) : arg.Items[i][2] > 1
    /\ Ok(ret[op]) /\ ret[op].val > 0

(* C5: army_points_cost is the sum of detachment_points_cost over the     *)
(* detachments, each of which is the sum of squad_points_cost over its    *)
(* squads (a failing squad makes the sums fail); an army without          *)
(* detachments and a detachment without squads cost 0.                    *)
DetachmentResults(a) ==
    [i \in 1..Len(a.Detachments) |-> detachment_points_cost(a.Detachments[i])]

SquadResults(d) == [j \in 1..Len(d.Units) |-> squad_points_cost(d.Units[j])]

RECURSIVE Flatten(_)
Flatten(ss) == IF ss = <<>> THEN <<>> ELSE Head(ss) \o Flatten(Tail(ss))

AllSquadResults(a) ==
    Flatten([i \in 1..Len(a.Detachments) |-> SquadResults(a.Detachments[i])])

C5_ArmyCostIsSumOfSquadCosts ==
    /\ (Ready /\ op = "army_points_cost")
       => /\ SameResult(ret[op], SumResults(DetachmentResults(arg)))
          /\ SameResult(ret[op], SumResults(AllSquadResults(arg)))
          /\ (arg.Detachments = <<>> => SameResult(ret[op], Return(0)))
    /\ (Ready /\ op = "detachment_points_cost")
       => /\ SameResult(ret[op], SumResults(SquadResults(arg)))
          /\ (arg.Units = <<>> => SameResult(ret[op], Return(0)))

C5_Witness ==
    /\ Ready /\ op = "army_points_cost"
    /\ Len(arg.Detachments) = 2
    /\ \A i \in 1..2 : Len(arg.Detachments[i].Units) = 2
    /\ arg.Detachments[1].Units[1] # arg.Detachments[1].Units[2]
    /\ Ok(ret[op])
    /\ \A i \in 1..Len(AllSquadResults(arg)) : AllSquadResults(arg)[i].val > 0

(* C6: for an army whose detachment types are all formations,             *)
(* army_cp_total is 3 plus the cp of each detachment's formation, counted *)
(* once per detachment, under both rulesets and whatever the squads.      *)
FormationCp(a) ==
    SetSum([i \in 1..Len(a.Detachments) |->
               Get(formations, a.Detachments[i].Type).cp],
           1..Len(a.Detachments))

C6_CommandPoints ==
    (/\ Ready /\ op = "army_cp_total"
     /\ \A d \in Elems(arg.Detachments) : Has(formations, d.Type))
    => SameResult(ret[op], Return(3 + FormationCp(arg)))

C6_Witness ==
    /\ Ready /\ op = "army_cp_total"
    /\ is_kill_team
    /\ Len(arg.Detachments) = 2
    /\ arg.Detachments[1].Type = arg.Detachments[2].Type
    /\ Has(formations, arg.Detachments[1].Type)
    /\ Get(formations, arg.Detachments[1].Type).cp > 0
    /\ arg.Detachments[1].Units # arg.Detachments[2].Units
    /\ Ok(ret[op])

(* C7: a lookup of a formation or ability name that is not in the catalog *)
(* halts processing at the lookup: lookup_formation and lookup_ability    *)
(* hand no result back, and army_cp_total ends in that fatal exit.        *)
C7_UnknownNameHaltsAtLookup ==
    /\ (Ready /\ op = "lookup_formation" /\ ~Has(formations, arg))
       => ret[op].exc = "SystemExit"
    /\ (Ready /\ op = "lookup_ability" /\ ~Has(abilities, arg))
       => ret[op].exc = "SystemExit"
    /\ (/\ Ready /\ op = "army_cp_total"
        /\ \E d \in Elems(arg.Detachments) : ~Has(formations, d.Type))
       => ret[op].exc = "SystemExit"

(* C8: once the weapons table is built, the record stored under the name  *)
(* of a row that does not match the mode pattern is its own only mode,    *)
(* also when other rows are named after it with a mode suffix.            *)
PlainRows == {i \in 1..Len(csv.weapons) : weapon_pattern(csv.weapons[i].Name) = {}}
ModeRows(b) ==
    {i \in 1..Len(csv.weapons) :
        /\ weapon_pattern(csv.weapons[i].Name) # {}
        /\ weapon_base_name(csv.weapons[i].Name) = b}
BaseNames ==
    {weapon_base_name(csv.weapons[i].Name) :
        i \in {k \in 1..Len(csv.weapons) : weapon_pattern(csv.weapons[k].Name) # {}}}

C8_PlainWeaponIsItsOwnMode ==
    WeaponsBuilt =>
        \A i \in PlainRows :
            LET w == csv.weapons[i].Name
            IN /\ Has(weapons, w)
               /\ get_modes(Get(weapons, w)) = <<Get(weapons, w)>>

(* C9: once the weapons table is built, the mode list of the record       *)
(* stored under a base name holds the rows naming that base, one entry    *)
(* per row, in file order, wherever a plain row of that name stands.      *)
RECURSIVE Ascending(_)
Ascending(S) ==
    IF S = {} THEN <<>>
    ELSE LET m == CHOOSE x \in S : \A y \in S : x <= y
         IN <<m>> \o Ascending(S \ {m})

C9_ModesAreTheModeRows ==
    WeaponsBuilt =>
        \A b \in BaseNames :
            /\ Has(weapons, b)
            /\ [k \in 1..Len(Get(weapons, b).modes) |-> Get(weapons, b).modes[k].row]
                   = Ascending(ModeRows(b))

(* C10: the price squad_wargear_cost charges for a weapon is the cost of  *)
(* the first entry of get_modes(), never the cost field of a base entry   *)
(* that has modes.                                                        *)
FirstModeSum(squad) ==
    SetSum([i \in 1..Len(squad.Items) |->
               IF Has(weapons, squad.Items[i][1])
               THEN get_modes(Get(weapons, squad.Items[i][1]))[1].cost
                        * squad.Items[i][2]
               ELSE IF Has(wargear, squad.Items[i][1])
               THEN Get(wargear, squad.Items[i][1]).cost * squad.Items[i][2]
               ELSE 0],
           1..Len(squad.Items))

C10_WeaponPriceIsFirstMode ==
    (/\ Ready /\ op = "squad_wargear_cost" /\ OneKindEach(arg)
     /\ Ok(ret["squad_wargear_included"])
     /\ ~ret["squad_wargear_included"].val)
    => SameResult(ret[op], Return(FirstModeSum(arg)))

(* C11: once the models table is built without an abort, the              *)
(* damage_variants of the record stored under a name hold one (threshold, *)
(* record) pair per row naming that model as base, in file order, so the  *)
(* list is non-empty iff there is such a row, also when the name has      *)
(* several plain rows.                                                    *)
ModelsBuilt == pc \in {"formations", "abilities", "psykers", "kill_team", "ready"}

IsVariantRow(i) == model_pattern(csv.models[i].Name) # {}

VariantBase(i) ==
    strip(SubSeq(csv.models[i].Name, 1,
                 Last(model_pattern(csv.models[i].Name)) - 1))

VariantThreshold(i) ==
    int(csv.models[i].Name[Last(model_pattern(csv.models[i].Name)) + 1])

VariantRows(n) ==
    {i \in 1..Len(csv.models) : IsVariantRow(i) /\ VariantBase(i) = n}

C11_VariantsAreTheVariantRows ==
    ModelsBuilt =>
        \A k \in 1..Len(models) :
            /\ (models[k].damage_variants # <<>>) <=> (VariantRows(models[k].name) # {})
            /\ [j \in 1..Len(models[k].damage_variants) |->
                    models[k].damage_variants[j][2].row]
                   = Ascending(VariantRows(models[k].name))
            /\ \A j \in 1..Len(models[k].damage_variants) :
                   models[k].damage_variants[j][1] =
                       VariantThreshold(models[k].damage_variants[j][2].row)

(* C12: a row that matches the damage-variant pattern is never a key of   *)
(* the models table nor of the merged costs table, and lookup_item of its *)
(* name fails.                                                            *)
VariantNames ==
    {csv.models[i].Name : i \in {k \in 1..Len(csv.models) : IsVariantRow(k)}}

C12_VariantIsNotAnEntry ==
    /\ \A n \in VariantNames : ~Has(models, n) /\ ~Has(costs, n)
    /\ (Ready /\ op = "lookup_item" /\ arg \in VariantNames)
       => ret[op].exc = "SystemExit"

C12_Witness ==
    /\ Ready /\ op = "lookup_item" /\ arg = N.Robot5W
    /\ Has(models, N.Robot)
    /\ \E j \in 1..Len(Get(models, N.Robot).damage_variants) :
           Get(models, N.Robot).damage_variants[j][2].name = N.Robot5W
    /\ ret[op].exc = "SystemExit"

(* C13: when a damage-variant row is read and no earlier row has put its  *)
(* base model into the table, the build stops with the KeyError of that   *)
(* row: no models table is stored and the constructor does not go on,     *)
(* also when the base row comes later in the file.                        *)
ModelsRead == pc \notin {"weapons", "wargear", "models"}

OrphanRows ==
    {i \in 1..Len(csv.models) :
        /\ IsVariantRow(i)
        /\ \A j \in 1..(i - 1) :
               IsVariantRow(j) \/ csv.models[j].Name # VariantBase(i)}

C13_OrphanVariantAborts ==
    (ModelsRead /\ OrphanRows # {}) => (pc = "KeyError" /\ models = <<>> /\ costs = <<>>)

C13_Witness ==
    /\ pc = "KeyError"
    /\ \E i \in OrphanRows : \E j \in (i + 1)..Len(csv.models) :
           ~IsVariantRow(j) /\ csv.models[j].Name = VariantBase(i)

(* C14: get_squad_items returns three lists that partition the item names *)
(* of the squad: every name is in exactly one list, the one of the first  *)
(* table (weapons, then models, then wargear) that has it, each list in   *)
(* the order of the Items mapping, and num_models is the sum of the       *)
(* quantities of the names in the models list.                            *)
KindOf(n) ==
    IF Has(weapons, n) THEN 1
    ELSE IF Has(models, n) THEN 2
    ELSE IF Has(wargear, n) THEN 3
    ELSE 0

RECURSIVE NamesOfKind(_, _)
NamesOfKind(items, k) ==
    IF items = <<>> THEN <<>>
    ELSE (IF KindOf(items[1][1]) = k THEN <<items[1][1]>> ELSE <<>>)
         \o NamesOfKind(Tail(items), k)

QuantityOfNames(squad, names) ==
    SetSum([i \in 1..Len(squad.Items) |->
               IF squad.Items[i][1] \in Elems(names) THEN squad.Items[i][2] ELSE 0],
           1..Len(squad.Items))

C14_ItemsArePartitioned ==
    (Ready /\ op = "get_squad_items") =>
        /\ Ok(ret[op])
        /\ \A n \in ItemsOf(arg) :
               Cardinality({k \in 1..3 : n \in Elems(ret[op].val[k])}) = 1
        /\ \A k \in 1..3 : ret[op].val[k] = NamesOfKind(arg.Items, k)
        /\ ret[op].val[4] = QuantityOfNames(arg, ret[op].val[2])

(* C15: under Kill Team, for a squad declaring a Specialist, the list     *)
(* returned by list_squad_abilities is the item-derived abilities         *)
(* followed by exactly the strings S (1) .. S (L), L being 3, 2, 1 or 0   *)
(* for a score of at least 12, 7, 3 or less (0 without Experience);       *)
(* under the standard ruleset or without Specialist nothing is appended.  *)
Score(squad) == IF "Experience" \in DOMAIN squad THEN squad.Experience ELSE 0

LevelOfScore(x) ==
    CASE x >= 12 -> 3
      [] 7 <= x /\ x < 12 -> 2
      [] 3 <= x /\ x < 7 -> 1
      [] x < 3 -> 0

LevelStrings(S, L) == [i \in 1..L |-> S \o <<" ", "(", ToString(i), ")">>]

DeclaresSpecialist(squad) == "Specialist" \in DOMAIN squad

ItemAbilities(squad) == list_squad_abilities_items(squad.Items, 1, <<>>)

C15_SpecialistLevels ==
    (Ready /\ op = "list_squad_abilities" /\ Ok(ret[op])) =>
        IF is_kill_team /\ DeclaresSpecialist(arg)
        THEN ret[op].val =
                 ItemAbilities(arg).val
                 \o LevelStrings(arg.Specialist, LevelOfScore(Score(arg)))
        ELSE ret[op].val = ItemAbilities(arg).val

C15_Witness ==
    /\ Ready /\ op = "list_squad_abilities" /\ Ok(ret[op])
    /\ is_kill_team /\ DeclaresSpecialist(arg)
    /\ Score(arg) = 7
    /\ Len(ret[op].val) >= 3
    /\ SubSeq(ret[op].val, Len(ret[op].val) - 1, Len(ret[op].val))
           = <<<<"Veteran", " ", "(", "1", ")">>, <<"Veteran", " ", "(", "2", ")">>>>

(* C16: for a squad whose items are all in the catalog, the item-derived  *)
(* part of list_squad_abilities holds the abilities of the records of the *)
(* items, each once, in the order of their first occurrence over the      *)
(* items in mapping order and each record's abilities in list order, and  *)
(* nothing else.                                                          *)
FirstOccurrences(l) ==
    LET keep == Ascending({i \in 1..Len(l) : \A j \in 1..(i - 1) : l[j] # l[i]})
    IN [k \in 1..Len(keep) |-> l[keep[k]]]

RecordAbilities(squad) ==
    Flatten([i \in 1..Len(squad.Items) |-> Get(costs, squad.Items[i][1]).abilities])

AppendedLevels(squad) ==
    IF is_kill_team /\ DeclaresSpecialist(squad)
    THEN LevelOfScore(Score(squad)) ELSE 0

ItemPart(squad, l) == SubSeq(l, 1, Len(l) - AppendedLevels(squad))

C16_SquadAbilitiesAreTheUnion ==
    (/\ Ready /\ op = "list_squad_abilities"
     /\ \A n \in ItemsOf(arg) : Has(costs, n))
    => /\ Ok(ret[op])
       /\ ItemPart(arg, ret[op].val) = FirstOccurrences(RecordAbilities(arg))
       /\ Elems(ItemPart(arg, ret[op].val)) = Elems(RecordAbilities(arg))
       /\ \A i, j \in 1..Len(ItemPart(arg, ret[op].val)) :
              ret[op].val[i] = ret[op].val[j] => i = j

C16_Witness ==
    /\ Ready /\ op = "list_squad_abilities" /\ Ok(ret[op])
    /\ Len(ItemPart(arg, ret[op].val)) >= 2
    /\ Len(RecordAbilities(arg)) > Len(ItemPart(arg, ret[op].val))
    /\ ret[op].val[1] # RecordAbilities(arg)[Len(RecordAbilities(arg))]

(* C17: list_army_abilities holds the abilities of list_squad_abilities   *)
(* of every squad of every detachment, each once, in the order of their   *)
(* first occurrence over detachments, squads and each squad's list, and   *)
(* nothing else (a failing squad makes it fail).                          *)
ArmyUnits(a) == Flatten([i \in 1..Len(a.Detachments) |-> a.Detachments[i].Units])

SquadAbilityResults(a) ==
    [i \in 1..Len(ArmyUnits(a)) |-> list_squad_abilities(ArmyUnits(a)[i])]

FirstFailure(rs) ==
    rs[CHOOSE i \in 1..Len(rs) : ~Ok(rs[i]) /\ \A j \in 1..(i - 1) : Ok(rs[j])]

AllSquadAbilities(rs) == Flatten([i \in 1..Len(rs) |-> rs[i].val])

C17_ArmyAbilitiesAreTheUnion ==
    (Ready /\ op = "list_army_abilities") =>
        IF \E i \in 1..Len(SquadAbilityResults(arg)) : ~Ok(SquadAbilityResults(arg)[i])
        THEN SameResult(ret[op], FirstFailure(SquadAbilityResults(arg)))
        ELSE /\ Ok(ret[op])
             /\ ret[op].val =
                    FirstOccurrences(AllSquadAbilities(SquadAbilityResults(arg)))
             /\ Elems(ret[op].val) =
                    UNION {Elems(SquadAbilityResults(arg)[i].val) :
                              i \in 1..Len(SquadAbilityResults(arg))}
             /\ \A i, j \in 1..Len(ret[op].val) :
                    ret[op].val[i] = ret[op].val[j] => i = j

C17_Witness ==
    /\ Ready /\ op = "list_army_abilities" /\ Ok(ret[op])
    /\ Len(arg.Detachments) = 2
    /\ Len(ArmyUnits(arg)) >= 3
    /\ Len(ret[op].val) >= 3
    /\ Len(AllSquadAbilities(SquadAbilityResults(arg))) > Len(ret[op].val)
    /\ \E i \in 1..Len(SquadAbilityResults(arg)) :
           SquadAbilityResults(arg)[i].val # ret[op].val

(* C18: lookup_buff returns 30 exactly when the game is Kill Team, a      *)
(* squad is given, the stat is Range, the item is named Frag Grenade or   *)
(* Krak Grenade and Auxiliary Grenade Launcher is among                   *)
(* list_squad_abilities(squad), and None otherwise (it fails as           *)
(* list_squad_abilities does when that call fails).  In a weapons table   *)
(* the flagged cells are the Range cells that show 30 in place of the     *)
(* weapon's range, and they are the cells the buff applies to: none under *)
(* the standard game, none in a table written for no squad, none for a    *)
(* squad without the ability.                                             *)
BuffApplies(squad, stat_name, name) ==
    /\ is_kill_team
    /\ ~IsNone(squad)
    /\ stat_name = "Range"
    /\ name \in {N.Frag, N.Krak}
    /\ N.AGL \in Elems(list_squad_abilities(squad).val)

Cells(t) == {<<i, k>> : i \in 1..Len(t.rows), k \in 1..Len(t.columns)}

CellOf(t, i, column_id) == t.rows[i][First(t.columns, column_id)]

TableWritten(f) == Ready /\ op = f /\ Ok(ret[f]) /\ ~IsNone(ret[f].val)

C18_BuffIsThirtyForLaunchedGrenades ==
    /\ (Ready /\ op = "lookup_buff") =>
           IF /\ is_kill_team /\ ~IsNone(arg[1])
              /\ ~Ok(list_squad_abilities(arg[1]))
           THEN SameResult(ret[op], list_squad_abilities(arg[1]))
           ELSE ret[op] = Return(IF BuffApplies(arg[1], arg[2], arg[3].name)
                                 THEN PyInt(30) ELSE None)
    /\ TableWritten("write_weapons_table") =>
           \A c \in Cells(ret[op].val) :
               /\ ret[op].val.rows[c[1]][c[2]].style = "stat-buffed"
                   <=> BuffApplies(arg[2], ret[op].val.columns[c[2]],
                                   CellOf(ret[op].val, c[1], "Name").text)
               /\ ret[op].val.rows[c[1]][c[2]].style = "stat-buffed"
                   <=> /\ ret[op].val.columns[c[2]] = "Range"
                       /\ ret[op].val.rows[c[1]][c[2]].text = <<"30">>
               /\ ret[op].val.rows[c[1]][c[2]].style \in {"", "stat-buffed"}

C18_Witness ==
    /\ TableWritten("write_weapons_table")
    /\ \E i, j \in 1..Len(ret[op].val.rows) :
           /\ CellOf(ret[op].val, i, "Range").style = "stat-buffed"
           /\ CellOf(ret[op].val, i, "Range").text = <<"30">>
           /\ CellOf(ret[op].val, i, "Name").text = N.Krak
           /\ CellOf(ret[op].val, j, "Range").style = ""
           /\ CellOf(ret[op].val, j, "Range").text = <<"24">>

(* C19: in the models table written for a squad under the standard game   *)
(* every model has one row showing its cost and the squad's quantity of   *)
(* it, followed by one row per damage variant, in declared order, showing *)
(* "-" in the Cost cell and in the Qty cell.                              *)
ShownRow(t, i) ==
    [Name |-> CellOf(t, i, "Name").text,
     Cost |-> CellOf(t, i, "Cost").text,
     Qty |-> CellOf(t, i, "Qty").text]

ClaimedModelRows(squad, item) ==
    <<[Name |-> item.name,
       Cost |-> <<item.stats["Cost"]>>,
       Qty |-> <<ToString(Quantity(squad, item.name))>>]>>
    \o [j \in 1..Len(item.damage_variants) |->
            [Name |-> item.damage_variants[j][2].name,
             Cost |-> <<"-">>,
             Qty |-> <<"-">>]]

C19_BaseRowShowsCostAndQuantity ==
    (TableWritten("write_models_table") /\ ~is_kill_team /\ ~IsNone(arg[2]))
    => [i \in 1..Len(ret[op].val.rows) |-> ShownRow(ret[op].val, i)]
       = Flatten([k \in 1..Len(sorted(arg[1])) |->
                     ClaimedModelRows(arg[2], lookup_item(sorted(arg[1])[k]).val)])

(* C20: in the weapons table written for a squad under the standard game  *)
(* a weapon with more than one mode has a header row with its name, its   *)
(* cost, the squad's quantity and "-" in the other stat cells, followed   *)
(* by one row per mode with "-" for Cost and Qty; a weapon with one mode  *)
(* has the single row of that mode with its cost and the quantity.  The   *)
(* Cost cell of the row that carries the cost is "-" iff the squad's      *)
(* wargear is included.                                                   *)
OtherStats == <<"Range", "Type", "S", "AP", "D">>

ShownWeaponRow(t, i) ==
    [Name |-> CellOf(t, i, "Name").text,
     Cost |-> CellOf(t, i, "Cost").text,
     Qty |-> CellOf(t, i, "Qty").text,
     Stats |-> [k \in 1..Len(OtherStats) |-> CellOf(t, i, OtherStats[k]).text]]

CostShown(record, included) ==
    IF included THEN <<"-">> ELSE <<record.stats["Cost"]>>

ClaimedWeaponRows(squad, name, item, included) ==
    IF Len(get_modes(item)) > 1
    THEN <<[Name |-> item.name,
            Cost |-> CostShown(item, included),
            Qty |-> <<ToString(Quantity(squad, name))>>,
            Stats |-> [k \in 1..Len(OtherStats) |-> <<"-">>]]>>
         \o [j \in 1..Len(get_modes(item)) |->
                [Name |-> get_modes(item)[j].name,
                 Cost |-> <<"-">>,
                 Qty |-> <<"-">>,
                 Stats |-> [k \in 1..Len(OtherStats) |->
                               <<get_modes(item)[j].stats[OtherStats[k]]>>]]]
    ELSE <<[Name |-> get_modes(item)[1].name,
            Cost |-> CostShown(get_modes(item)[1], included),
            Qty |-> <<ToString(Quantity(squad, name))>>,
            Stats |-> [k \in 1..Len(OtherStats) |->
                          <<get_modes(item)[1].stats[OtherStats[k]]>>]]>>

C20_CostAndQuantityOnOneRow ==
    (TableWritten("write_weapons_table") /\ ~is_kill_team /\ ~IsNone(arg[2]))
    => [i \in 1..Len(ret[op].val.rows) |-> ShownWeaponRow(ret[op].val, i)]
       = Flatten([k \in 1..Len(sorted(arg[1])) |->
                     ClaimedWeaponRows(arg[2], sorted(arg[1])[k],
                         lookup_item(sorted(arg[1])[k]).val,
                         squad_wargear_included(arg[2]).val)])

C20_Witness ==
    /\ TableWritten("write_weapons_table") /\ ~is_kill_team /\ ~IsNone(arg[2])
    /\ Len(ret[op].val.rows) = 4
    /\ \E i \in 1..4 :
           /\ ShownWeaponRow(ret[op].val, i).Name = N.Flamer
           /\ ShownWeaponRow(ret[op].val, i).Cost = <<"-">>
           /\ ShownWeaponRow(ret[op].val, i).Qty = <<"1">>
    /\ \E i \in 1..3 :
           /\ ShownWeaponRow(ret[op].val, i).Name = N.Gun
           /\ ShownWeaponRow(ret[op].val, i).Qty = <<"2">>
           /\ ShownWeaponRow(ret[op].val, i + 1).Name = N.GunA
           /\ ShownWeaponRow(ret[op].val, i + 1).Qty = <<"-">>

(* C21: the abilities list of every weapon record is the stripped         *)
(* segments of the Abilities cell of its row without the empty ones, so   *)
(* it never holds the empty string, and stats["Abilities"] is those names *)
(* joined by ", ", or "-" when there is none.                             *)
IsName(x) == x # <<>>

WeaponRecords ==
    UNION {{weapons[i]} \cup Elems(weapons[i].modes) : i \in 1..Len(weapons)}

C21_WeaponAbilitiesDropEveryEmpty ==
    \A w \in WeaponRecords :
        w.row > 0 =>
            /\ w.abilities =
                   SelectSeq(split_abilities(csv.weapons[w.row].Abilities), IsName)
            /\ <<>> \notin Elems(w.abilities)
            /\ w.stats["Abilities"] =
                   IF w.abilities = <<>> THEN <<"-">>
                   ELSE join(<<", ">>, w.abilities)

(* C22: lookup_psyker of a name that is not in the psykers table returns  *)
(* None to its caller and raises nothing, with quiet and without; of a    *)
(* name in the table it returns the record parsed from the row of that    *)
(* name.                                                                  *)
PsykerRows(name) == {i \in 1..Len(csv.psykers) : csv.psykers[i].Name = name}

C22_PsykerMissIsNone ==
    (Ready /\ op = "lookup_psyker") =>
        /\ Ok(ret[op])
        /\ PsykerRows(arg[1]) = {} <=> ret[op].val = None
        /\ PsykerRows(arg[1]) # {} =>
               /\ ret[op].val.name = arg[1]
               /\ ret[op].val.row = Last(PsykerRows(arg[1]))
               /\ ret[op].val.discipline = csv.psykers[ret[op].val.row].Discipline

C22_Witness ==
    /\ Ready /\ op = "lookup_psyker" /\ ~arg[2]
    /\ PsykerRows(arg[1]) = {}
    /\ ret[op] = Return(None)

SquadsInSlot(detachment, slot) ==
    Cardinality({i \in 1..Len(detachment.Units) :
                    detachment.Units[i].Slot = slot})

SquadsNotInSlot(detachment, slot) ==
    Cardinality({i \in 1..Len(detachment.Units) :
                    detachment.Units[i].Slot # slot})

CommentAt(f, text) ==
    CHOOSE i \in 1..Len(f) : f[i].kind = "comment" /\ f[i].text = text

IsCell(line) == line.kind = "oneliner" /\ line.tag = "td"

FormationCells(f) ==
    SelectSeq(SubSeq(f, CommentAt(f, <<"Formation">>),
                     CommentAt(f, <<"Unit summary">>)), IsCell)

SlotMax(type, k) ==
    csv.formations[Get(formations, type).row][slot_names[k]][3]

C24_ChartNeedsRatioOneToOne ==
    (Ready /\ op = "write_force_organisation_chart" /\ Has(formations, arg.Type))
    => IF Get(formations, arg.Type).transports_ratio # "1:1"
       THEN /\ ~Ok(ret[op])
            /\ Ok(detachment_points_cost(arg)) => ret[op].exc = "AssertionError"
       ELSE /\ Ok(detachment_points_cost(arg)) => Ok(ret[op])
            /\ Ok(ret[op]) =>
                   [k \in 1..6 |-> FormationCells(ret[op].val.f)[k].text]
                   = [k \in 1..5 |->
                         <<ToString(SquadsInSlot(arg, slot_names[k])), "/",
                           SlotMax(arg.Type, k)>>]
                     \o <<<<ToString(SquadsInSlot(arg, "Transports")), "/",
                            ToString(SquadsNotInSlot(arg, "Transports"))>>>>

C24_Witness ==
    /\ Ready /\ op = "write_force_organisation_chart" /\ Ok(ret[op])
    /\ SquadsInSlot(arg, "Transports") = 1
    /\ SquadsInSlot(arg, "HQ") = 1
    /\ Len(FormationCells(ret[op].val.f)) = 6

(* C25: a weapon row whose name does not end with a bracketed suffix and  *)
(* a model row whose name does not end with (<N>W) are stored under their *)
(* own full name; only rows whose name ends with the suffix are linked    *)
(* to a base.                                                             *)
EndsWithMode(name) ==
    /\ name # <<>> /\ name[Len(name)] = "]"
    /\ \E i \in 1..Len(name) : name[i] = "["

EndsWithVariant(name) ==
    Len(name) - 3 \in model_pattern(name)

C25_OnlyTrailingSuffixLinks ==
    /\ WeaponsBuilt =>
           \A i \in 1..Len(csv.weapons) :
               ~EndsWithMode(csv.weapons[i].Name) =>
                   /\ Has(weapons, csv.weapons[i].Name)
                   /\ \A w \in WeaponRecords : \A m \in 1..Len(w.modes) :
                          w.modes[m].row # i
    /\ ModelsBuilt =>
           \A i \in 1..Len(csv.models) :
               ~EndsWithVariant(csv.models[i].Name) =>
                   /\ Has(models, csv.models[i].Name)
                   /\ \A b \in 1..Len(models) :
                          \A v \in 1..Len(models[b].damage_variants) :
                              models[b].damage_variants[v][2].row # i

(* C26: for an item name that is a key of more than one of the weapons,   *)
(* models and wargear tables the operations agree on one kind: the record *)
(* lookup_item returns is of the kind get_squad_items puts the name in    *)
(* (weapon before model before wargear), squad_wargear_included reads     *)
(* includes_wargear from Model records only and so never fails on a       *)
(* missing attribute, and the squad is charged once for the item, at the  *)
(* cost of that record.                                                   *)
RecordKind(r) ==
    IF "modes" \in DOMAIN r THEN 1
    ELSE IF "damage_variants" \in DOMAIN r THEN 2
    ELSE 3

RecordOfKind(n) ==
    IF KindOf(n) = 1 THEN Get(weapons, n)
    ELSE IF KindOf(n) = 2 THEN Get(models, n)
    ELSE Get(wargear, n)

ChargedOnce(squad) ==
    SetSum([i \in 1..Len(squad.Items) |->
               RecordOfKind(squad.Items[i][1]).cost * squad.Items[i][2]],
           1..Len(squad.Items))

C26_OneKindPerName ==
    /\ (Ready /\ op = "lookup_item" /\ Ok(ret[op])) =>
           RecordKind(ret[op].val) = KindOf(arg)
    /\ (Ready /\ op = "squad_wargear_included") =>
           ret[op].exc # "AttributeError"
    /\ (/\ Ready /\ op = "squad_points_cost"
        /\ \A n \in ItemsOf(arg) : KindOf(n) # 0
        /\ ~AnyIncludesWargear(arg))
       => ret[op] = Return(ChargedOnce(arg))

(* C27: the lists returned by list_squad_abilities and by                 *)
(* list_army_abilities never hold the empty string.                       *)
C27_NoEmptyAbility ==
    (Ready /\ op \in {"list_squad_abilities", "list_army_abilities"}
           /\ Ok(ret[op]))
    => <<>> \notin Elems(ret[op].val)

-----------------------------------------------------------------------------
(* C28: write_squad completes for a squad that has at least one model,    *)
(* and it writes one psyker table for each of the squad's models whose    *)
(* name is in the psykers table and none for the others.  It is stated    *)
(* for the squads whose cost, abilities and quick reference tables are    *)
(* written without error, so that only the psyker tables can fail.        *)
PsykerTables(f) ==
    Cardinality({i \in 1..Len(f) :
                    f[i].kind = "comment" /\ f[i].text = <<"Psyker">>})

TablesBeforePsykers(squad) ==
    /\ Ok(get_squad_items(squad))
    /\ Ok(list_squad_abilities(squad))
    /\ Ok(squad_points_cost(squad))
    /\ Ok(write_models_table(get_squad_items(squad).val[2], squad))
    /\ Ok(write_wargear_table(get_squad_items(squad).val[3], squad))
    /\ Ok(write_weapons_table(get_squad_items(squad).val[1], squad))
    /\ \A a \in Elems(list_squad_abilities(squad).val) : Has(abilities, a)

C28_SquadWithModelsIsWritten ==
    (/\ Ready
     /\ op = "write_squad"
     /\ TablesBeforePsykers(arg)
     /\ Len(get_squad_items(arg).val[2]) >= 1)
    => /\ Ok(ret[op])
       /\ PsykerTables(ret[op].val.f) =
              Cardinality({m \in Elems(get_squad_items(arg).val[2]) :
                              Has(psykers, m)})

-----------------------------------------------------------------------------
(* C29: the tag stack of the Outfile is balanced.  No writer calls        *)
(* end_tag on an empty stack; every line is written behind a padding of   *)
(* 4 x the depth of the stack at that moment; and when write_army returns *)
(* without error, for any army, game and sections, the stack is empty and *)
(* every start_tag has been closed by the end_tag of the same tag, last   *)
(* opened first closed.                                                   *)
OutfileOps == {"write_army", "write_squad", "write_force_organisation_chart"}

(* The lines i < j are a start_tag and the end_tag that closes it: same   *)
(* tag, same depth, and everything between them is deeper.                *)
Closes(f, i, j) ==
    /\ f[i].kind = "start_tag" /\ f[j].kind = "end_tag"
    /\ f[i].tag = f[j].tag /\ f[i].depth = f[j].depth
    /\ \A k \in (i + 1)..(j - 1) : f[k].depth > f[i].depth

Nested(f) ==
    /\ \A i \in 1..Len(f) :
          f[i].kind = "start_tag" => \E j \in (i + 1)..Len(f) : Closes(f, i, j)
    /\ \A j \in 1..Len(f) :
          f[j].kind = "end_tag" => \E i \in 1..(j - 1) : Closes(f, i, j)

C29_TagStackIsBalanced ==
    (Ready /\ op \in OutfileOps)
    => /\ ret[op].exc # "IndexError"
       /\ \A i \in 1..Len(ret[op].val.f) :
             ret[op].val.f[i].pad = 4 * ret[op].val.f[i].depth
       /\ (op = "write_army" /\ Ok(ret[op]))
          => ret[op].val.stack = <<>> /\ Nested(ret[op].val.f)

(* write_army wrote every section of an army with a squad and returned.   *)
C29_Witness ==
    /\ Ready /\ op = "write_army" /\ arg[2] = <<>> /\ Ok(ret[op])
    /\ ArmySquads # {}
    /\ \E i \in 1..Len(ret[op].val.f) : ret[op].val.f[i].depth >= 5

-----------------------------------------------------------------------------
(* C30: the legacy engine GameData of generate.py and Database are        *)
(* equivalent on costs.  Built from the same files, one is built exactly  *)
(* when the other is; each of the seven cost methods of GameData returns  *)
(* what the method of Database returns for the same argument, or both     *)
(* fail; and the result does not change when the Experience and the Level *)
(* of the squads are taken away.                                          *)
DatabaseCost(f, a) ==
    CASE f = "GameData.squad_models_cost" -> squad_models_cost(a)
      [] f = "GameData.squad_wargear_included" -> squad_wargear_included(a)
      [] f = "GameData.squad_wargear_cost" -> squad_wargear_cost(a)
      [] f = "GameData.squad_points_cost" -> squad_points_cost(a)
      [] f = "GameData.detachment_points_cost" -> detachment_points_cost(a)
      [] f = "GameData.army_points_cost" -> army_points_cost(a)
      [] f = "GameData.army_cp_total" -> army_cp_total(a)

LegacyOps ==
    {"GameData.squad_models_cost", "GameData.squad_wargear_included",
     "GameData.squad_wargear_cost", "GameData.squad_points_cost",
     "GameData.detachment_points_cost", "GameData.army_points_cost",
     "GameData.army_cp_total"}

Without(squad) ==
    [k \in DOMAIN squad \ {"Experience", "Level"} |-> squad[k]]

(* The argument of a cost method with no Experience and no Level in its   *)
(* squads.                                                                *)
WithoutDetachment(d) ==
    [d EXCEPT !.Units = [i \in 1..Len(d.Units) |-> Without(d.Units[i])]]

Inexperienced(f, a) ==
    IF f \in {"GameData.army_points_cost", "GameData.army_cp_total"}
    THEN [a EXCEPT !.Detachments =
             [i \in 1..Len(a.Detachments) |-> WithoutDetachment(a.Detachments[i])]]
    ELSE IF f = "GameData.detachment_points_cost" THEN WithoutDetachment(a)
    ELSE Without(a)

SameValueOrBothFail(a, b) == (Ok(a) <=> Ok(b)) /\ (Ok(a) => a.val = b.val)

Stages ==
    {"weapons", "wargear", "models", "formations", "abilities", "psykers",
     "kill_team"}

C30_LegacyEngineAgreesOnCosts ==
    /\ (pc = "ready" /\ op = "") => Ok(GameData_init)
    /\ pc \notin Stages \cup {"ready"} => ~Ok(GameData_init)
    /\ (Ready /\ op \in LegacyOps)
       => /\ SameValueOrBothFail(ret[op], DatabaseCost(op, arg))
          /\ SameValueOrBothFail(ret[op], DatabaseCost(op, Inexperienced(op, arg)))

(* The legacy engine costed a Kill Team squad that has an Experience and  *)
(* pays for its wargear.                                                  *)
C30_Witness ==
    /\ Ready /\ is_kill_team /\ op = "GameData.squad_points_cost"
    /\ "Experience" \in DOMAIN arg
    /\ Ok(ret[op]) /\ Ok(squad_wargear_cost(arg))
    /\ squad_wargear_cost(arg).val > 0
    /\ ret[op].val > squad_wargear_cost(arg).val

====
